---- MODULE Spec2Model ----
(***************************************************************************)
(* Client-side aggregation logic of the swiftdashboard front end:          *)
(*   - AttendanceService.calculateWorkingHours and the two component       *)
(*     variants (Attendance.getWorkingHours,                               *)
(*     AdminDashboard.calculateWorkingHours);                              *)
(*   - Attendance.calculateStats, run by the attendance response handler;  *)
(*   - AdminDashboard.calculateBestDepartment, run when the ranked         *)
(*     employee list arrives;                                              *)
(*   - the attendance percentage and points of the service and of the      *)
(*     Attendance component;                                               *)
(*   - the top-3 list of Ranking and AdminDashboard, and the rank labels;  *)
(*   - AdminDashboard.loadAllDashboardData with its five parallel requests *)
(*     and ngOnDestroy;                                                    *)
(*   - Attenreport.loadEmployeeAndAttendanceData;                          *)
(*   - DashboardEmployeeComponent with its requests, timer and teardown;   *)
(*   - the consumers of a list response (TaskService.normalizePageData,    *)
(*     the dashboard's attendance handler, Ranking's handler);             *)
(*   - TaskService with the Alltask component: loading and deleting;       *)
(*   - overlapping attendance requests of the Attendance component;        *)
(*   - AuthService: login, logout and the token refresh;                   *)
(*   - Staffprofile.processAttendanceData;                                 *)
(*   - InnovationComponent with its three flags.                           *)
(* The specifications share the variables; each leaves the variables of    *)
(* the components it does not follow at their constructed values.          *)
(***************************************************************************)
EXTENDS Integers, Sequences, FiniteSets, TLC

VARIABLES
    \* work-duration functions: the two arguments and the last call's result
    checkIn, checkOut, ret,
    \* Attendance component: what the server holds, the component's fields,
    \* the requests in flight and the handler that last wrote the period or
    \* the loaded data
    srvAttendance,
    attendanceRecords, paginationData, selectedPeriod, attendanceStats,
    attLoading, attError, attPending, attOp,
    \* AdminDashboard component: what the server holds, the component's
    \* fields, the requests in flight, the argument of the last
    \* calculateBestDepartment call and the handler that last wrote the
    \* department list or the best department
    srvDepartments, srvRanked,
    departments, totalDepartments, loading, forkPending, rankPending,
    rankedEmployees, bestDepartment, bestDepartmentPoints, dashOp,
    \* AdminDashboard component, further: what the server holds for the
    \* other resources, the state of each of the five parallel requests, the
    \* fields the forkJoin handler fills, the error text, and whether
    \* ngOnDestroy has run
    srvEmployees, srvTaskStats, srvDashAttendance, fetch,
    employees, topEmployees, taskStats, dashAttendanceRecords,
    totalEmployees, activeEmployees, dashError, destroyed,
    \* Ranking component: the page of ranked employees the server holds, the
    \* component's fields and the requests in flight; rank is the argument of
    \* the rank-label functions
    srvRankPage, rkEmployees, topThreeEmployees, isLoading, errorMessage,
    rkPending, rank,
    \* Attenreport component: what the server holds for the employee, the
    \* state of each of the three parallel requests and the component's fields
    srvProfile, srvReportStats, srvReportRecords, arFetch,
    arEmployee, arAttendanceStatsData, arAttendanceRecords, arSelectedPeriod,
    arLoading, arError,
    \* DashboardEmployeeComponent: the state of each request of ngOnInit,
    \* whether ngOnDestroy has run, the component's fields, the clock shown
    \* (hours, minutes, seconds) and the interval handle
    empFetch, empDestroyed, userName, summary, progress, empTaskStats,
    notifications, empAttendance, totalWeeklyHours, weeklyPercentage,
    clock, timerInterval,
    \* list consumers: the response handed to a consumer of a list endpoint
    response,
    \* TaskService and Alltask: the tasks the server holds, the value of
    \* tasksSubject, the getAllTasks requests of Alltask and the deleteTasks
    \* requests in flight, the number of getAllTasks requests issued so far
    \* (counted modulo IssuedModulus), Alltask's stage of life and fields, the last
    \* deleteTasks response processed, and whether every getAllTasks answer so
    \* far was ok with no user action since ngOnInit
    srvTasks, tasksSubject, taskRequests, taskIssued, deleteRequests,
    atLife, atTasks, allTasks, filteredTasks, atTotalItems, atIsLoading,
    taskOp, undisturbed,
    \* Attendance component with overlapping requests: what the server holds
    \* for each period, and the period of each request in flight, oldest first
    srvByPeriod, attInFlight,
    \* AuthService: the three localStorage items, the value of
    \* currentUserSubject, the route last navigated to, the refresh requests
    \* in flight, and whether logout has run with no login since
    localStorage, currentUserSubject, route, refreshRequests, loggedOut,
    \* Staffprofile: the week's records handed to processAttendanceData
    weekRecords,
    \* InnovationComponent: the ideas the server holds, the component's lists
    \* and flags, the idea picked for deletion, and the requests in flight of
    \* each kind
    srvInnovations, innovations, filteredInnovations, inIsLoading,
    isSubmitting, isDeleting, ideaToDelete, innoRequests

hoursVars == <<checkIn, checkOut, ret>>
attVars   == <<srvAttendance, attendanceRecords, paginationData, selectedPeriod,
               attendanceStats, attLoading, attError, attPending, attOp>>
dashVars  == <<srvDepartments, srvRanked, departments, totalDepartments, loading,
               forkPending, rankPending, rankedEmployees, bestDepartment,
               bestDepartmentPoints, dashOp>>
rankVars  == <<srvRankPage, rkEmployees, topThreeEmployees, isLoading,
               errorMessage, rkPending, rank>>
srvLoadVars == <<srvEmployees, srvTaskStats, srvDashAttendance>>
filledVars  == <<employees, topEmployees, taskStats, dashAttendanceRecords,
                 totalEmployees, activeEmployees>>
loadVars  == <<srvLoadVars, fetch, filledVars, dashError, destroyed>>
reportVars == <<srvProfile, srvReportStats, srvReportRecords, arFetch,
                arEmployee, arAttendanceStatsData, arAttendanceRecords,
                arSelectedPeriod, arLoading, arError>>
empFields == <<userName, summary, progress, empTaskStats, notifications,
               empAttendance, totalWeeklyHours, weeklyPercentage, clock>>
empVars   == <<empFetch, empDestroyed, empFields, timerInterval>>
envVars   == <<response>>
atFields  == <<atTasks, allTasks, filteredTasks, atTotalItems, atIsLoading>>
taskVars  == <<srvTasks, tasksSubject, taskRequests, taskIssued, deleteRequests, atLife,
               atFields, taskOp, undisturbed>>
raceVars  == <<srvByPeriod, attInFlight>>
authVars  == <<localStorage, currentUserSubject, route, refreshRequests, loggedOut>>
profVars  == <<weekRecords>>
innoVars  == <<srvInnovations, innovations, filteredInnovations, inIsLoading,
               isSubmitting, isDeleting, ideaToDelete, innoRequests>>
svcVars   == <<envVars, taskVars, raceVars, authVars, profVars, innoVars>>
pageVars  == <<reportVars, empVars, svcVars>>
otherVars == <<rankVars, pageVars>>
vars      == <<hoursVars, attVars, dashVars, loadVars, otherVars>>

----------------------------------------------------------------------------
(* Bounds of the model *)

MaxDay == 2          \* timestamps fall on days 1..MaxDay
MaxRecords == 2      \* attendance records per response
MaxPending == 1      \* requests of one kind in flight at once
MaxDepts == 2        \* departments per response
MaxEmployees == 2    \* ranked employees per response

----------------------------------------------------------------------------
(* JavaScript numbers: an integer or NaN.  A duration in hours is a        *)
(* fraction num/den.                                                       *)

Num(n) == [nan |-> FALSE, v |-> n]
NaN    == [nan |-> TRUE, v |-> 0]

isNaN(x) == x.nan

\* a - b
JsSub(a, b) == IF a.nan \/ b.nan THEN NaN ELSE Num(a.v - b.v)

\* a < k for a literal k; every comparison with NaN is false
JsLess(a, k) == ~a.nan /\ a.v < k

\* Math.floor(a / k) for a >= 0
JsFloorDiv(a, k) == IF a.nan THEN NaN ELSE Num(a.v \div k)

\* a % k for a >= 0
JsMod(a, k) == IF a.nan THEN NaN ELSE Num(a.v % k)

Frac(n, d) == [nan |-> FALSE, num |-> n, den |-> d]
FracNaN    == [nan |-> TRUE, num |-> 0, den |-> 1]

\* hours + (minutes / 60), kept as a fraction over 60
JsHoursPlusMinutes(h, m) ==
    IF h.nan \/ m.nan THEN FracNaN ELSE Frac(h.v * 60 + m.v, 60)

----------------------------------------------------------------------------
(* Timestamp arguments.  A value is null, the empty string, a string that  *)
(* is no date, or an ISO-8601 text "2024-01-<d>T<h>:<m>:<s>Z".             *)

HourSamples   == {0, 9, 17, 25}
MinuteSamples == {0, 30, 59}
SecondSamples == {0, 30}

NullTime    == [kind |-> "null",  d |-> 0, h |-> 0, m |-> 0, s |-> 0]
EmptyTime   == [kind |-> "empty", d |-> 0, h |-> 0, m |-> 0, s |-> 0]
GarbageTime == [kind |-> "text",  d |-> 0, h |-> 0, m |-> 0, s |-> 0]

IsoTimes == [kind : {"iso"}, d : 1..MaxDay, h : HourSamples,
             m : MinuteSamples, s : SecondSamples]

TimeArgs == {NullTime, EmptyTime, GarbageTime} \cup IsoTimes

\* !x for a string-or-null argument
Falsy(x) == x.kind \in {"null", "empty"}

MsPerMinute == 60000
MsPerHour   == 3600000

\* new Date(x).getTime(): milliseconds, or NaN when the text is no date
\* (an hour outside 0..24 makes an ISO text invalid)
DateGetTime(x) ==
    IF x.kind = "iso" /\ x.h \in 0..23 /\ x.m \in 0..59 /\ x.s \in 0..59
    THEN Num((((x.d * 24 + x.h) * 60 + x.m) * 60 + x.s) * 1000)
    ELSE NaN

----------------------------------------------------------------------------
(* AttendanceService.calculateWorkingHours *)

ZeroDuration == [hours |-> Num(0), minutes |-> Num(0), total |-> Frac(0, 1)]

\* faulty variant: the negative-difference guard is missing
calculateWorkingHours_NoClamp(ci, co) ==
    IF Falsy(ci) \/ Falsy(co) THEN ZeroDuration
    ELSE LET diffMs == JsSub(DateGetTime(co), DateGetTime(ci))
         IN  IF diffMs.nan
             THEN [hours |-> NaN, minutes |-> NaN, total |-> FracNaN]
             ELSE [hours   |-> Num(diffMs.v \div MsPerHour),
                   minutes |-> Num((diffMs.v % MsPerHour) \div MsPerMinute),
                   total   |-> Frac((diffMs.v \div MsPerHour) * 60
                                    + (diffMs.v % MsPerHour) \div MsPerMinute, 60)]

\* faulty variant: the minutes are not reduced modulo the hour
calculateWorkingHours_NoMod(ci, co) ==
    IF Falsy(ci) \/ Falsy(co) THEN ZeroDuration
    ELSE LET diffMs == JsSub(DateGetTime(co), DateGetTime(ci))
         IN  IF JsLess(diffMs, 0) THEN ZeroDuration
             ELSE LET hours   == JsFloorDiv(diffMs, MsPerHour)
                      minutes == JsFloorDiv(diffMs, MsPerMinute)
                  IN  [hours |-> hours, minutes |-> minutes,
                       total |-> JsHoursPlusMinutes(hours, minutes)]

calculateWorkingHours(ci, co) ==
    IF Falsy(ci) \/ Falsy(co) THEN ZeroDuration
    ELSE LET start  == DateGetTime(ci)
             end    == DateGetTime(co)
             diffMs == JsSub(end, start)
         IN  IF JsLess(diffMs, 0) THEN ZeroDuration
             ELSE LET hours   == JsFloorDiv(diffMs, MsPerHour)
                      minutes == JsFloorDiv(JsMod(diffMs, MsPerHour), MsPerMinute)
                      total   == JsHoursPlusMinutes(hours, minutes)
                  IN  [hours |-> hours, minutes |-> minutes, total |-> total]

----------------------------------------------------------------------------
(* Attendance.getWorkingHours and AdminDashboard.calculateWorkingHours:    *)
(* the result is the text "<h>H <m>M" / "<h>h <m>m", kept as its parts.    *)

FormatHM(h, hUnit, m, mUnit) ==
    [hours |-> h, hUnit |-> hUnit, minutes |-> m, mUnit |-> mUnit]

getWorkingHours(ci, co) ==
    IF Falsy(ci) \/ Falsy(co) THEN FormatHM(0, "H", 0, "M")
    ELSE LET start == DateGetTime(ci)
             end   == DateGetTime(co)
         IN  IF isNaN(start) \/ isNaN(end) THEN FormatHM(0, "H", 0, "M")
             ELSE LET diffMs == JsSub(end, start)
                  IN  IF JsLess(diffMs, 0) THEN FormatHM(0, "H", 0, "M")
                      ELSE FormatHM(JsFloorDiv(diffMs, MsPerHour).v, "H",
                                    JsFloorDiv(JsMod(diffMs, MsPerHour), MsPerMinute).v, "M")

AdminDashboard_calculateWorkingHours(ci, co) ==
    IF Falsy(ci) \/ Falsy(co) THEN FormatHM(0, "h", 0, "m")
    ELSE LET start == DateGetTime(ci)
             end   == DateGetTime(co)
         IN  IF isNaN(start) \/ isNaN(end) THEN FormatHM(0, "h", 0, "m")
             ELSE LET diffMs == JsSub(end, start)
                  IN  IF JsLess(diffMs, 0) THEN FormatHM(0, "h", 0, "m")
                      ELSE FormatHM(JsFloorDiv(diffMs, MsPerHour).v, "h",
                                    JsFloorDiv(JsMod(diffMs, MsPerHour), MsPerMinute).v, "m")

----------------------------------------------------------------------------
(* Attendance percentage and attendance points, in the service and in the  *)
(* Attendance component.                                                   *)

StandardHours == 8      \* standardHours: a full day is 100 percent
PointsPerHour == 40     \* pointsPerHour
MaxPoints     == 320    \* the cap on attendance points

\* Math.round(n / d) for n >= 0, d > 0
MathRound(n, d) == (2 * n + d) \div (2 * d)

\* Math.min(a, k) for a literal k; NaN if a is NaN
JsMin(a, k) == IF a.nan THEN NaN ELSE Num(IF a.v < k THEN a.v ELSE k)

\* a * k for a literal k
JsTimes(a, k) == IF a.nan THEN NaN ELSE Num(a.v * k)

calculateAttendancePercentage(ci, co) ==
    LET total == calculateWorkingHours(ci, co).total
    IN  IF ~total.nan /\ total.num = 0 THEN Num(0)
        ELSE JsMin(IF total.nan THEN NaN
                   ELSE Num(MathRound(total.num * 100, total.den * StandardHours)),
                   100)

calculateAttendancePoints(ci, co) ==
    LET hours == calculateWorkingHours(ci, co).hours
    IN  JsMin(JsTimes(hours, PointsPerHour), MaxPoints)

getAttendancePercentage(ci, co) ==
    IF Falsy(ci) \/ Falsy(co) THEN Num(0)
    ELSE LET start == DateGetTime(ci)
             end   == DateGetTime(co)
         IN  IF isNaN(start) \/ isNaN(end) THEN Num(0)
             ELSE LET diffMs == JsSub(end, start)
                  IN  IF JsLess(diffMs, 0) THEN Num(0)
                      \* (diffMs / MsPerHour / 8) * 100, as diffMs over
                      \* MsPerHour * 8 / 100 to stay within 32 bits
                      ELSE LET percentage ==
                                   Num(MathRound(diffMs.v, (MsPerHour * 8) \div 100))
                           IN  JsMin(percentage, 100)

\* faulty variant: the points are not capped
getAttendancePoints_NoCap(ci, co) ==
    IF Falsy(ci) \/ Falsy(co) THEN Num(0)
    ELSE LET start == DateGetTime(ci)
             end   == DateGetTime(co)
         IN  IF isNaN(start) \/ isNaN(end) THEN Num(0)
             ELSE LET diffMs == JsSub(end, start)
                  IN  IF JsLess(diffMs, 0) THEN Num(0)
                      ELSE JsTimes(JsFloorDiv(diffMs, MsPerHour), 40)

getAttendancePoints(ci, co) ==
    IF Falsy(ci) \/ Falsy(co) THEN Num(0)
    ELSE LET start == DateGetTime(ci)
             end   == DateGetTime(co)
         IN  IF isNaN(start) \/ isNaN(end) THEN Num(0)
             ELSE LET diffMs == JsSub(end, start)
                  IN  IF JsLess(diffMs, 0) THEN Num(0)
                      ELSE LET diffHours == JsFloorDiv(diffMs, MsPerHour)
                               points    == JsTimes(diffHours, 40)
                           IN  JsMin(points, 320)

----------------------------------------------------------------------------
(* Attendance component: records, pagination payload, calculateStats *)

Undefined == "<undefined>"

Periods == {"Day", "Week"}

TotalItemsSamples == {0, 5}

StatusSamples == {"Present", "LATE", "absent", "Leave", "OnTime", "Unknown", "", Undefined}
UserIds == {"u1", "u2"}

AttendanceRecords == [status : StatusSamples, userId : UserIds]

\* sequences over S of length 0..n
RECURSIVE SeqsUpTo(_, _)
SeqsUpTo(S, n) ==
    IF n = 0 THEN {<<>>}
    ELSE LET shorter == SeqsUpTo(S, n - 1)
         IN  shorter \cup {Append(q, x) : q \in {r \in shorter : Len(r) = n - 1}, x \in S}

\* an optional number: totalItems may be absent from the payload
Some(n)  == [def |-> TRUE, v |-> n]
NoNumber == [def |-> FALSE, v |-> 0]

\* response.data of GET /attendance: PaginatedData; pageData may be absent
PaginatedPayloads ==
    [isNull : {FALSE},
     totalItems : {NoNumber} \cup {Some(n) : n \in TotalItemsSamples},
     hasPageData : {TRUE},
     pageData : SeqsUpTo(AttendanceRecords, MaxRecords)]
    \cup
    [isNull : {FALSE},
     totalItems : {NoNumber} \cup {Some(n) : n \in TotalItemsSamples},
     hasPageData : {FALSE},
     pageData : {<<>>}]

\* paginationData: PaginatedData | null = null
NullPagination ==
    [isNull |-> TRUE, totalItems |-> NoNumber, hasPageData |-> FALSE, pageData |-> <<>>]

ZeroStats ==
    [totalPresent |-> 0, totalAbsent |-> 0, totalLate |-> 0,
     totalLeave |-> 0, totalOnTime |-> 0, totalStaff |-> 0]

\* String.prototype.toLowerCase on the status texts of the model
ToLowerCase(s) ==
    CASE s = "Present" -> "present"
      [] s = "LATE"    -> "late"
      [] s = "Leave"   -> "leave"
      [] s = "OnTime"  -> "ontime"
      [] s = "Unknown" -> "unknown"
      [] OTHER         -> s

\* faulty variant: a missing status is left uncounted instead of defaulting to 'absent'
StatusKey_NoDefault(status) ==
    IF status = Undefined THEN "" ELSE ToLowerCase(status)

\* record.status?.toLowerCase() || 'absent'
StatusKey(status) ==
    LET lowered == IF status = Undefined THEN Undefined ELSE ToLowerCase(status)
    IN  IF lowered = Undefined \/ lowered = "" THEN "absent" ELSE lowered

\* faulty variant: compares the status without lower-casing it
CountOne_CaseSensitive(stats, record) ==
    LET status == IF record.status \in {Undefined, ""} THEN "absent" ELSE record.status
    IN  CASE status = "present" -> [stats EXCEPT !.totalPresent = @ + 1]
          [] status = "absent"  -> [stats EXCEPT !.totalAbsent = @ + 1]
          [] status = "late"    -> [stats EXCEPT !.totalLate = @ + 1]
          [] status = "leave"   -> [stats EXCEPT !.totalLeave = @ + 1]
          [] status = "ontime"  -> [stats EXCEPT !.totalOnTime = @ + 1]
          [] OTHER              -> stats

\* the body of the forEach: one switch over the status key
CountOne(stats, record) ==
    LET status == StatusKey(record.status)
    IN  CASE status = "present" -> [stats EXCEPT !.totalPresent = @ + 1]
          [] status = "absent"  -> [stats EXCEPT !.totalAbsent = @ + 1]
          [] status = "late"    -> [stats EXCEPT !.totalLate = @ + 1]
          [] status = "leave"   -> [stats EXCEPT !.totalLeave = @ + 1]
          [] status = "ontime"  -> [stats EXCEPT !.totalOnTime = @ + 1]
          [] OTHER              -> stats

RECURSIVE CountByStatus(_, _, _)
CountByStatus(stats, records, i) ==
    IF i > Len(records) THEN stats
    ELSE CountByStatus(CountOne(stats, records[i]), records, i + 1)

\* new Set(records.map(r => r.user.id)).size
UniqueUsers(records) == Cardinality({records[i].userId : i \in 1..Len(records)})

\* faulty variant: counts records rather than distinct users for the Day period
TotalStaff_CountsRecords(period, pagination, records) ==
    IF period = "Day" THEN Len(records)
    ELSE IF ~pagination.isNull /\ pagination.totalItems.def /\ pagination.totalItems.v # 0
         THEN pagination.totalItems.v
         ELSE Len(records)

\* faulty variant: the Day branch is taken for every period
TotalStaff_AlwaysUnique(period, pagination, records) == UniqueUsers(records)

\* Day: unique users; otherwise paginationData?.totalItems || records.length
TotalStaff(period, pagination, records) ==
    IF period = "Day" THEN UniqueUsers(records)
    ELSE IF ~pagination.isNull /\ pagination.totalItems.def /\ pagination.totalItems.v # 0
         THEN pagination.totalItems.v
         ELSE Len(records)

calculateStats(period, pagination, records) ==
    [CountByStatus(ZeroStats, records, 1)
        EXCEPT !.totalStaff = TotalStaff(period, pagination, records)]

----------------------------------------------------------------------------
(* AdminDashboard.calculateBestDepartment.  Points are counted in halves   *)
(* of a point, so that Math.round has something to round.                  *)

Null == "<null>"

DeptNames == {"Engineering", "Sales"}

\* monthlyPoint in halves of a point: 0, 0.5, 1.5
PointSamples == {0, 1, 3}

Departments == [name : DeptNames]

\* a ranked employee: department is a name or null, monthlyPoint may be absent
RankedEmployees ==
    [department : DeptNames \cup {Null},
     monthlyPoint : {NoNumber} \cup {Some(h) : h \in PointSamples}]

\* a Map<string, number> in insertion order
MapHas(m, k) == \E i \in 1..Len(m) : m[i].key = k

\* m.get(k) || 0
MapGetOr0(m, k) ==
    IF MapHas(m, k) THEN m[CHOOSE i \in 1..Len(m) : m[i].key = k].val ELSE 0

\* m.set(k, v): an existing key keeps its place, a new key goes last
MapSet(m, k, v) ==
    IF MapHas(m, k)
    THEN [i \in 1..Len(m) |-> IF m[i].key = k THEN [key |-> k, val |-> v] ELSE m[i]]
    ELSE Append(m, [key |-> k, val |-> v])

\* if (x) for a string-or-null value
Truthy(x) == x # Null /\ x # ""

\* emp.monthlyPoint || 0
PointsOf(emp) == IF emp.monthlyPoint.def THEN emp.monthlyPoint.v ELSE 0

\* departments.forEach(dept => deptPoints.set(dept.name, 0))
RECURSIVE InitDeptPoints(_, _, _)
InitDeptPoints(m, depts, i) ==
    IF i > Len(depts) THEN m
    ELSE InitDeptPoints(MapSet(m, depts[i].name, 0), depts, i + 1)

\* rankedEmployees.forEach: add each employee's points to its department
RECURSIVE AddEmployeePoints(_, _, _)
AddEmployeePoints(m, emps, i) ==
    IF i > Len(emps) THEN m
    ELSE LET emp == emps[i]
         IN  IF Truthy(emp.department)
             THEN AddEmployeePoints(
                      MapSet(m, emp.department,
                             MapGetOr0(m, emp.department) + PointsOf(emp)),
                      emps, i + 1)
             ELSE AddEmployeePoints(m, emps, i + 1)

\* rankedEmployees.forEach: count the employees of each department
RECURSIVE CountEmployees(_, _, _)
CountEmployees(m, emps, i) ==
    IF i > Len(emps) THEN m
    ELSE LET emp == emps[i]
         IN  IF Truthy(emp.department)
             THEN CountEmployees(
                      MapSet(m, emp.department, MapGetOr0(m, emp.department) + 1),
                      emps, i + 1)
             ELSE CountEmployees(m, emps, i + 1)

\* m.forEach((v, k) => { if (v > max) { max = v; best = k } })
RECURSIVE ScanMax(_, _, _)
ScanMax(acc, m, i) ==
    IF i > Len(m) THEN acc
    ELSE IF m[i].val > acc.max
         THEN ScanMax([max |-> m[i].val, best |-> m[i].key], m, i + 1)
         ELSE ScanMax(acc, m, i + 1)

\* Math.round of h halves
MathRoundHalves(h) == (h + 1) \div 2

NotApplicable == [bestDepartment |-> "N/A", bestDepartmentPoints |-> 0]

\* faulty variant: the empty-department-list guard is missing
calculateBestDepartment_NoDeptGuard(emps, depts) ==
    IF Len(emps) = 0 THEN NotApplicable
    ELSE LET deptPoints == AddEmployeePoints(InitDeptPoints(<<>>, depts, 1), emps, 1)
             byPoints   == ScanMax([max |-> 0, best |-> ""], deptPoints, 1)
             bestDept   ==
                 IF byPoints.max = 0
                 THEN ScanMax([max |-> 0, best |-> byPoints.best],
                              CountEmployees(<<>>, emps, 1), 1).best
                 ELSE byPoints.best
         IN  [bestDepartment |-> IF bestDept = "" THEN "N/A" ELSE bestDept,
              bestDepartmentPoints |-> MathRoundHalves(byPoints.max)]

calculateBestDepartment(emps, depts) ==
    IF Len(emps) = 0 \/ Len(depts) = 0 THEN NotApplicable
    ELSE LET deptPoints == AddEmployeePoints(InitDeptPoints(<<>>, depts, 1), emps, 1)
             byPoints   == ScanMax([max |-> 0, best |-> ""], deptPoints, 1)
             bestDept   ==
                 IF byPoints.max = 0 /\ Len(depts) > 0
                 THEN ScanMax([max |-> 0, best |-> byPoints.best],
                              CountEmployees(<<>>, emps, 1), 1).best
                 ELSE byPoints.best
         IN  [bestDepartment |-> IF bestDept = "" THEN "N/A" ELSE bestDept,
              bestDepartmentPoints |-> MathRoundHalves(byPoints.max)]

----------------------------------------------------------------------------
(* Employee ranking: Ranking.loadEmployeeRanking and the map step of       *)
(* AdminDashboard.loadEmployeeRanks.  A ranked employee is kept as its id, *)
(* its monthlyRank and its monthlyPoint in halves.                         *)

MaxRankRows == 4     \* ranked employees per page

RankSamples == {1, 2, 3, 4}

\* the i-th employee of a page, holding rank r
RankRow(i, r) == [id |-> i, monthlyRank |-> r, monthlyPoint |-> 2 * i + 1]

\* pages of 0..MaxRankRows employees, ranks in any order, ties allowed
RankPages ==
    UNION {{[i \in 1..n |-> RankRow(i, rs[i])] : rs \in [1..n -> RankSamples]}
           : n \in 0..MaxRankRows}

\* the comparator (a, b) => a.monthlyRank - b.monthlyRank
CompareMonthlyRank(a, b) == a.monthlyRank - b.monthlyRank

\* x put into a sorted list behind every element that does not compare
\* greater than it
RECURSIVE InsertByRank(_, _)
InsertByRank(x, sorted) ==
    IF sorted = <<>> THEN <<x>>
    ELSE IF CompareMonthlyRank(Head(sorted), x) <= 0
         THEN <<Head(sorted)>> \o InsertByRank(x, Tail(sorted))
         ELSE <<x>> \o sorted

\* faulty variant: the list is left in arrival order
SortByMonthlyRank_Unsorted(list) == list

\* list.sort((a, b) => a.monthlyRank - b.monthlyRank): a stable sort
RECURSIVE SortByMonthlyRank(_)
SortByMonthlyRank(list) ==
    IF list = <<>> THEN <<>>
    ELSE InsertByRank(list[Len(list)],
                      SortByMonthlyRank(SubSeq(list, 1, Len(list) - 1)))

\* list.slice(0, 3)
SliceTop3(list) == SubSeq(list, 1, IF Len(list) < 3 THEN Len(list) ELSE 3)

\* the object the dashboard builds from one ranked employee
ToEmployeeRank(emp) ==
    [id |-> emp.id,
     monthlyPoint |-> MathRoundHalves(emp.monthlyPoint),
     monthlyRank |-> IF emp.monthlyRank # 0 THEN emp.monthlyRank ELSE 0]

\* the map step of loadEmployeeRanks for an ok response with this pageData
loadEmployeeRanks_map(pageData) ==
    LET sortedEmployees == SliceTop3(SortByMonthlyRank(pageData))
    IN  [i \in 1..Len(sortedEmployees) |-> ToEmployeeRank(sortedEmployees[i])]

----------------------------------------------------------------------------
(* AdminDashboard.loadAllDashboardData: the five parallel requests, what   *)
(* each hands to forkJoin, and the forkJoin handler.                       *)

FetchNames == {"departments", "employees", "topEmployees", "taskStats", "attendance"}

\* a request is not sent, in flight, answered ok with data, or failed
\* (answered not ok, answered without data, or an HTTP error)
Answered == {"ok", "failed"}

Idle == [f \in FetchNames |-> "idle"]

\* An employee is kept as its deactivated field: "false", "true" or
\* undefined.  The TaskStats object is kept flattened: total, the six status counts and the
\* four priority counts; a key the object lacks holds NoNumber
TaskKeys == {"total", "InProgress", "Blocked", "Completed", "UnderReview",
             "NotStarted", "Overdue", "Critical", "High", "Low", "Medium"}

TaskStatsWith(present, n) ==
    [k \in TaskKeys |-> IF k \in present THEN Some(n) ELSE NoNumber]

\* the literal of the field initialiser, of the map step and of catchError
DefaultTaskStats == TaskStatsWith(TaskKeys, 0)

\* response.data of GET /task/stats: complete, the empty object, without
\* the priority counts, without one key
TaskStatsPayloads ==
    {TaskStatsWith(TaskKeys, 2), TaskStatsWith({}, 0),
     TaskStatsWith({"total", "Completed"}, 2),
     TaskStatsWith(TaskKeys \ {"Medium"}, 2)}

\* the page loadTodayAttendance falls back to
DefaultAttendancePage == [hasPageData |-> TRUE, pageData |-> <<>>]

\* faulty variant: the subscription outlives destroy$
takeUntil_Never(notified) == TRUE

\* takeUntil(this.destroy$): values pass until destroy$ has emitted
takeUntil(notified) == ~notified

\* faulty variant: forkJoin emits with the first answer
forkJoinReady_Any(f) == \E n \in FetchNames : f[n] \in Answered

\* forkJoin emits when every source has emitted and completed
forkJoinReady(f) == \A n \in FetchNames : f[n] \in Answered

\* faulty variant: a failed request hands on the server's data, not the
\* fallback value
Results_NoFallback(f) ==
    [departments  |-> IF TRUE THEN srvDepartments ELSE <<>>,
     employees    |-> IF TRUE THEN srvEmployees ELSE <<>>,
     topEmployees |-> IF TRUE
                      THEN loadEmployeeRanks_map(srvRankPage) ELSE <<>>,
     taskStats    |-> IF TRUE THEN srvTaskStats ELSE DefaultTaskStats,
     attendance   |-> IF TRUE THEN srvDashAttendance
                      ELSE DefaultAttendancePage]

\* what the five sources hand to forkJoin, given how each request ended
Results(f) ==
    [departments  |-> IF f["departments"] = "ok" THEN srvDepartments ELSE <<>>,
     employees    |-> IF f["employees"] = "ok" THEN srvEmployees ELSE <<>>,
     topEmployees |-> IF f["topEmployees"] = "ok"
                      THEN loadEmployeeRanks_map(srvRankPage) ELSE <<>>,
     taskStats    |-> IF f["taskStats"] = "ok" THEN srvTaskStats ELSE DefaultTaskStats,
     attendance   |-> IF f["attendance"] = "ok" THEN srvDashAttendance
                      ELSE DefaultAttendancePage]

\* employees.filter(e => e.deactivated === false || e.deactivated === undefined).length
RECURSIVE CountActive(_)
CountActive(emps) ==
    IF emps = <<>> THEN 0
    ELSE (IF Head(emps).deactivated = "false" \/ Head(emps).deactivated = Undefined
          THEN 1 ELSE 0) + CountActive(Tail(emps))

\* results.attendance.pageData || []
PageDataOrEmpty(page) == IF page.hasPageData THEN page.pageData ELSE <<>>

\* the next handler of the forkJoin subscription
forkJoinNext(results) ==
    /\ departments' = results.departments
    /\ employees' = results.employees
    /\ topEmployees' = results.topEmployees
    /\ taskStats' = results.taskStats
    /\ dashAttendanceRecords' = PageDataOrEmpty(results.attendance)
    /\ totalEmployees' = Len(employees')
    /\ activeEmployees' = CountActive(employees')
    /\ totalDepartments' = Len(departments')
    /\ rankPending' = rankPending + 1
    /\ loading' = FALSE

----------------------------------------------------------------------------
(* Constructed values of the three components *)

HoursIdle ==
    /\ checkIn = NullTime
    /\ checkOut = NullTime
    /\ ret = [op |-> "none", val |-> <<>>]

AttendanceConstructed ==
    /\ attendanceRecords = <<>>
    /\ paginationData = NullPagination
    /\ selectedPeriod = "Day"
    /\ attendanceStats = ZeroStats
    /\ attLoading = TRUE
    /\ attError = Null
    /\ attPending = 0
    /\ attOp = "constructed"

RankingConstructed ==
    /\ srvRankPage = <<>>
    /\ rkEmployees = <<>>
    /\ topThreeEmployees = <<>>
    /\ isLoading = FALSE
    /\ errorMessage = ""
    /\ rkPending = 0
    /\ rank = 1

ReportStatKeys == {"Absent", "Sick", "Holiday", "OnTime", "Leave", "Late"}

\* the initialiser of attendanceStatsData
ZeroReportStats == [total |-> 0, stats |-> [k \in ReportStatKeys |-> 0]]

ReportFetchNames == {"employee", "stats", "records"}

AttenreportConstructed ==
    /\ arFetch = [n \in ReportFetchNames |-> "idle"]
    /\ arEmployee = Null
    /\ arAttendanceStatsData = ZeroReportStats
    /\ arAttendanceRecords = <<>>
    /\ arSelectedPeriod = "Month"
    /\ arLoading = TRUE
    /\ arError = Null

ReportServerHoldsNothing ==
    /\ srvProfile = Null
    /\ srvReportStats = ZeroReportStats
    /\ srvReportRecords = [hasPageData |-> FALSE, pageData |-> <<>>]

EmpFetchNames == {"user", "dailyProgress", "taskStats", "notifications",
                  "attendance", "report"}

DashboardEmployeeConstructed ==
    /\ empFetch = [n \in EmpFetchNames |-> "idle"]
    /\ empDestroyed = FALSE
    /\ userName = [first |-> "User", last |-> ""]
    /\ summary = [pointToday |-> 0, monthPoint |-> 0, dailyRank |-> 0, monthlyRank |-> 0]
    /\ progress = [attendanceRate |-> 0, daysPresent |-> 0, daysTotal |-> 0]
    /\ empTaskStats = [completed |-> 0, inProgress |-> 0, overdue |-> 0]
    /\ notifications = <<>>
    /\ empAttendance = <<>>
    /\ totalWeeklyHours = 0
    /\ weeklyPercentage = 0
    /\ clock = [h |-> 0, m |-> 0, s |-> 0]
    /\ timerInterval = "unset"

\* no response has been handed to a list consumer
NoResponse == [ok |-> FALSE, data |-> [kind |-> "undefined"]]

InnoKinds == {"load", "submit", "delete"}

\* InnovationComponent as constructed, the server holding no idea
InnovationConstructed ==
    /\ srvInnovations = <<>>
    /\ innovations = <<>>
    /\ filteredInnovations = <<>>
    /\ inIsLoading = FALSE
    /\ isSubmitting = FALSE
    /\ isDeleting = FALSE
    /\ ideaToDelete = Null
    /\ innoRequests = [k \in InnoKinds |-> 0]

\* localStorage with none of the three items
EmptyStorage == [access_token |-> Null, refresh_token |-> Null, user |-> Null]

\* AuthService constructed on a browser with no saved session
AuthConstructed ==
    /\ localStorage = EmptyStorage
    /\ currentUserSubject = Null
    /\ route = "/"
    /\ refreshRequests = 0
    /\ loggedOut = FALSE

\* TaskService and Alltask as constructed, nothing requested
TasksConstructed ==
    /\ tasksSubject = <<>>
    /\ taskRequests = 0
    /\ taskIssued = 0
    /\ deleteRequests = {}
    /\ atLife = "constructed"
    /\ atTasks = <<>>
    /\ allTasks = <<>>
    /\ filteredTasks = <<>>
    /\ atTotalItems = 0
    /\ atIsLoading = FALSE
    /\ taskOp = [op |-> "none", outcome |-> "none", removed |-> 0]
    /\ undisturbed = TRUE

ServicesConstructed ==
    /\ response = NoResponse
    /\ srvTasks = <<>>
    /\ TasksConstructed
    /\ srvByPeriod = [p \in Periods |-> NullPagination]
    /\ attInFlight = <<>>
    /\ AuthConstructed
    /\ weekRecords = <<>>
    /\ InnovationConstructed

OthersConstructed ==
    /\ ServicesConstructed
    /\ RankingConstructed
    /\ AttenreportConstructed
    /\ ReportServerHoldsNothing
    /\ DashboardEmployeeConstructed

DashboardConstructed ==
    /\ departments = <<>>
    /\ totalDepartments = 0
    /\ loading = TRUE
    /\ forkPending = 0
    /\ rankPending = 0
    /\ rankedEmployees = <<>>
    /\ bestDepartment = ""
    /\ bestDepartmentPoints = 0
    /\ dashOp = "constructed"
    /\ fetch = Idle
    /\ employees = <<>>
    /\ topEmployees = <<>>
    /\ taskStats = DefaultTaskStats
    /\ dashAttendanceRecords = <<>>
    /\ totalEmployees = 0
    /\ activeEmployees = 0
    /\ dashError = Null
    /\ destroyed = FALSE

\* the server holds nothing for the resources a specification does not draw
ServerHoldsNothing ==
    /\ srvEmployees = <<>>
    /\ srvTaskStats = DefaultTaskStats
    /\ srvDashAttendance = DefaultAttendancePage

----------------------------------------------------------------------------
(* Work-duration calls *)

InitHours ==
    /\ checkIn \in TimeArgs
    /\ checkOut \in TimeArgs
    /\ ret = [op |-> "none", val |-> <<>>]
    /\ srvAttendance = NullPagination
    /\ AttendanceConstructed
    /\ srvDepartments = <<>>
    /\ srvRanked = <<>>
    /\ DashboardConstructed
    /\ ServerHoldsNothing
    /\ OthersConstructed

CallCalculateWorkingHours ==
    /\ ret' = [op |-> "AttendanceService.calculateWorkingHours",
               val |-> calculateWorkingHours(checkIn, checkOut)]
    /\ UNCHANGED <<checkIn, checkOut, attVars, dashVars, loadVars, otherVars>>

CallGetWorkingHours ==
    /\ ret' = [op |-> "Attendance.getWorkingHours",
               val |-> getWorkingHours(checkIn, checkOut)]
    /\ UNCHANGED <<checkIn, checkOut, attVars, dashVars, loadVars, otherVars>>

CallAdminCalculateWorkingHours ==
    /\ ret' = [op |-> "AdminDashboard.calculateWorkingHours",
               val |-> AdminDashboard_calculateWorkingHours(checkIn, checkOut)]
    /\ UNCHANGED <<checkIn, checkOut, attVars, dashVars, loadVars, otherVars>>

CallCalculateAttendancePercentage ==
    /\ ret' = [op |-> "AttendanceService.calculateAttendancePercentage",
               val |-> calculateAttendancePercentage(checkIn, checkOut)]
    /\ UNCHANGED <<checkIn, checkOut, attVars, dashVars, loadVars, otherVars>>

CallCalculateAttendancePoints ==
    /\ ret' = [op |-> "AttendanceService.calculateAttendancePoints",
               val |-> calculateAttendancePoints(checkIn, checkOut)]
    /\ UNCHANGED <<checkIn, checkOut, attVars, dashVars, loadVars, otherVars>>

CallGetAttendancePercentage ==
    /\ ret' = [op |-> "Attendance.getAttendancePercentage",
               val |-> getAttendancePercentage(checkIn, checkOut)]
    /\ UNCHANGED <<checkIn, checkOut, attVars, dashVars, loadVars, otherVars>>

CallGetAttendancePoints ==
    /\ ret' = [op |-> "Attendance.getAttendancePoints",
               val |-> getAttendancePoints(checkIn, checkOut)]
    /\ UNCHANGED <<checkIn, checkOut, attVars, dashVars, loadVars, otherVars>>

NextHours ==
    \/ CallCalculateWorkingHours
    \/ CallGetWorkingHours
    \/ CallAdminCalculateWorkingHours
    \/ CallCalculateAttendancePercentage
    \/ CallCalculateAttendancePoints
    \/ CallGetAttendancePercentage
    \/ CallGetAttendancePoints

SpecHours == InitHours /\ [][NextHours]_vars

----------------------------------------------------------------------------
(* Attendance component *)

InitAtt ==
    /\ srvAttendance \in PaginatedPayloads
    /\ AttendanceConstructed
    /\ HoursIdle
    /\ srvDepartments = <<>>
    /\ srvRanked = <<>>
    /\ DashboardConstructed
    /\ ServerHoldsNothing
    /\ OthersConstructed

\* loadAttendanceData up to the point where the request is sent
LoadAttendanceData ==
    /\ attPending < MaxPending
    /\ attLoading' = TRUE
    /\ attError' = Null
    /\ attPending' = attPending + 1

AttNgOnInit ==
    /\ attOp = "constructed"
    /\ LoadAttendanceData
    /\ attOp' = "ngOnInit"
    /\ UNCHANGED <<srvAttendance, attendanceRecords, paginationData, selectedPeriod,
                   attendanceStats, hoursVars, dashVars, loadVars, otherVars>>

changePeriod(period) ==
    /\ attOp # "constructed"
    /\ selectedPeriod' = period
    /\ LoadAttendanceData
    /\ attOp' = "changePeriod"
    /\ UNCHANGED <<srvAttendance, attendanceRecords, paginationData,
                   attendanceStats, hoursVars, dashVars, loadVars, otherVars>>

refreshData ==
    /\ attOp # "constructed"
    /\ LoadAttendanceData
    /\ UNCHANGED <<srvAttendance, attendanceRecords, paginationData, selectedPeriod,
                   attendanceStats, attOp, hoursVars, dashVars, loadVars, otherVars>>

\* next: response.ok && response.data
AttendanceLoaded ==
    /\ attPending > 0
    /\ paginationData' = srvAttendance
    /\ attendanceRecords' =
           IF srvAttendance.hasPageData THEN srvAttendance.pageData ELSE <<>>
    /\ attendanceStats' =
           calculateStats(selectedPeriod, paginationData', attendanceRecords')
    /\ attLoading' = FALSE
    /\ attPending' = attPending - 1
    /\ attOp' = "loaded"
    /\ UNCHANGED <<srvAttendance, selectedPeriod, attError, hoursVars, dashVars, loadVars, otherVars>>

\* next: the response is not ok or carries no data
AttendanceNotOk ==
    /\ attPending > 0
    /\ attError' = "Failed to load attendance data"
    /\ attLoading' = FALSE
    /\ attPending' = attPending - 1
    /\ UNCHANGED <<srvAttendance, attendanceRecords, paginationData, selectedPeriod,
                   attendanceStats, attOp, hoursVars, dashVars, loadVars, otherVars>>

\* the message the error handler shows for an HTTP status
ErrorMessage(status) ==
    CASE status = 401 -> "Session expired. Please login again."
      [] status = 403 -> "You do not have permission to view this data."
      [] status = 0   -> "Unable to connect to server. Please check your internet connection."
      [] OTHER        -> "Failed to load attendance data. Please try again."

\* error: the request failed with an HTTP status
AttendanceFailed(status) ==
    /\ attPending > 0
    /\ attError' = ErrorMessage(status)
    /\ attLoading' = FALSE
    /\ attPending' = attPending - 1
    /\ UNCHANGED <<srvAttendance, attendanceRecords, paginationData, selectedPeriod,
                   attendanceStats, attOp, hoursVars, dashVars, loadVars, otherVars>>

NextAtt ==
    \/ AttNgOnInit
    \/ \E period \in Periods : changePeriod(period)
    \/ refreshData
    \/ AttendanceLoaded
    \/ AttendanceNotOk
    \/ \E status \in {401, 500} : AttendanceFailed(status)

SpecAtt == InitAtt /\ [][NextAtt]_vars

----------------------------------------------------------------------------
(* AdminDashboard component *)

InitDash ==
    /\ srvDepartments \in SeqsUpTo(Departments, MaxDepts)
    /\ srvRanked \in SeqsUpTo(RankedEmployees, MaxEmployees)
    /\ DashboardConstructed
    /\ ServerHoldsNothing
    /\ HoursIdle
    /\ srvAttendance = NullPagination
    /\ AttendanceConstructed
    /\ OthersConstructed

\* loadAllDashboardData up to the point where the five requests are sent
loadAllDashboardData ==
    /\ forkPending < MaxPending
    /\ loading' = TRUE
    /\ dashError' = Null
    /\ forkPending' = forkPending + 1

DashNgOnInit ==
    /\ dashOp = "constructed"
    /\ loadAllDashboardData
    /\ dashOp' = "ngOnInit"
    /\ UNCHANGED <<srvDepartments, srvRanked, departments, totalDepartments,
                   rankPending, rankedEmployees, bestDepartment,
                   bestDepartmentPoints, srvLoadVars, fetch, filledVars,
                   destroyed, hoursVars, attVars, otherVars>>

DashRefreshData ==
    /\ dashOp # "constructed"
    /\ loadAllDashboardData
    /\ UNCHANGED <<srvDepartments, srvRanked, departments, totalDepartments,
                   rankPending, rankedEmployees, bestDepartment,
                   bestDepartmentPoints, dashOp, srvLoadVars, fetch, filledVars,
                   destroyed, hoursVars, attVars, otherVars>>

\* forkJoin next with every request answered ok: the results are what the
\* server holds; the ranked-employee request is sent.  This specification
\* does not follow the five answers one by one.
DashboardLoaded ==
    /\ forkPending > 0
    /\ rankPending < MaxPending
    /\ takeUntil(destroyed)
    /\ forkJoinNext(Results([f \in FetchNames |-> "ok"]))
    /\ forkPending' = forkPending - 1
    /\ dashOp' = "dashboardLoaded"
    /\ UNCHANGED <<srvDepartments, srvRanked, rankedEmployees, bestDepartment,
                   bestDepartmentPoints, srvLoadVars, fetch, dashError,
                   destroyed, hoursVars, attVars, otherVars>>

\* loadAllRankedEmployees().subscribe: the list the server holds goes to
\* calculateBestDepartment
RankedEmployeesLoaded ==
    /\ rankPending > 0
    /\ takeUntil(destroyed)
    /\ rankedEmployees' = srvRanked
    /\ LET best == calculateBestDepartment(rankedEmployees', departments)
       IN  /\ bestDepartment' = best.bestDepartment
           /\ bestDepartmentPoints' = best.bestDepartmentPoints
    /\ rankPending' = rankPending - 1
    /\ dashOp' = "rankedLoaded"
    /\ UNCHANGED <<srvDepartments, srvRanked, departments, totalDepartments,
                   loading, forkPending, loadVars, hoursVars, attVars, otherVars>>

NextDash ==
    \/ DashNgOnInit
    \/ DashRefreshData
    \/ DashboardLoaded
    \/ RankedEmployeesLoaded

SpecDash == InitDash /\ [][NextDash]_vars

----------------------------------------------------------------------------
(* Properties of calculateBestDepartment.  They speak of the state right   *)
(* after the ranked-employee handler ran: bestDepartment was then computed *)
(* from the departments and rankedEmployees of the same state.             *)

BestDepartmentComputed == dashOp = "rankedLoaded"

ListedNames == {departments[i].name : i \in 1..Len(departments)}

\* the employees whose department string equals name exactly
MembersOf(name) ==
    {i \in 1..Len(rankedEmployees) : rankedEmployees[i].department = name}

RECURSIVE SumOver(_)
SumOver(I) ==
    IF I = {} THEN 0
    ELSE LET i == CHOOSE j \in I : TRUE
         IN  (IF rankedEmployees[i].monthlyPoint.def
              THEN rankedEmployees[i].monthlyPoint.v ELSE 0) + SumOver(I \ {i})

\* a department's total, in halves of a point
DeptTotal(name) == SumOver(MembersOf(name))

HeadCount(name) == Cardinality(MembersOf(name))

\* h halves of a point, rounded to the nearest integer (a half rounds up)
RoundedHalves(h) == IF h % 2 = 0 THEN h \div 2 ELSE (h \div 2) + 1

\* C1: when some listed department has a positive total, bestDepartment is
\* a listed department whose total is the greatest among the listed
\* departments, and bestDepartmentPoints is that total rounded.
C1_GreatestTotalWins ==
    (/\ BestDepartmentComputed
     /\ Len(rankedEmployees) > 0
     /\ \E d \in ListedNames : DeptTotal(d) > 0)
    => /\ bestDepartment \in ListedNames
       /\ \A d \in ListedNames : DeptTotal(bestDepartment) >= DeptTotal(d)
       /\ bestDepartmentPoints = RoundedHalves(DeptTotal(bestDepartment))

\* C2: with every listed department's total 0 and some employee in a
\* listed department, bestDepartment is a listed department with the
\* greatest head count and bestDepartmentPoints is 0.
C2_HeadCountFallback ==
    (/\ BestDepartmentComputed
     /\ \E d \in ListedNames : HeadCount(d) > 0
     /\ \A d \in ListedNames : DeptTotal(d) = 0)
    => /\ bestDepartment \in ListedNames
       /\ \A d \in ListedNames : HeadCount(bestDepartment) >= HeadCount(d)
       /\ bestDepartmentPoints = 0

\* C3: with an empty ranked-employee list or an empty department list,
\* bestDepartment is 'N/A' and bestDepartmentPoints is 0.
C3_EmptyInputGivesNotApplicable ==
    (/\ BestDepartmentComputed
     /\ (Len(rankedEmployees) = 0 \/ Len(departments) = 0))
    => /\ bestDepartment = "N/A"
       /\ bestDepartmentPoints = 0

\* C3 witness: the calculation ran with no department but with an employee
\* that names a department and has points.
C3_Witness ==
    /\ BestDepartmentComputed
    /\ Len(departments) = 0
    /\ \E i \in 1..Len(rankedEmployees) :
           /\ rankedEmployees[i].department \in DeptNames
           /\ rankedEmployees[i].monthlyPoint.def
           /\ rankedEmployees[i].monthlyPoint.v > 0
    /\ bestDepartment = "N/A"

----------------------------------------------------------------------------
(* Properties of calculateStats.  They speak of the state right after the  *)
(* response handler ran: attendanceStats was then computed from the        *)
(* attendanceRecords, paginationData and selectedPeriod of the same state. *)

StatsComputed == attOp = "loaded"

\* the spellings of a recognized status among the status texts of the model
Spellings(s) ==
    CASE s = "present" -> {"Present"}
      [] s = "absent"  -> {"absent"}
      [] s = "late"    -> {"LATE"}
      [] s = "leave"   -> {"Leave"}
      [] s = "ontime"  -> {"OnTime"}

\* the number of loaded records whose status is in the set
NumWithStatus(statuses) ==
    Cardinality({i \in 1..Len(attendanceRecords) :
                    attendanceRecords[i].status \in statuses})

MissingStatus == {Undefined, ""}

\* the number of distinct user ids among the loaded records
DistinctUsers ==
    Cardinality({u \in UserIds :
                    \E i \in 1..Len(attendanceRecords) : attendanceRecords[i].userId = u})

\* C4 as stated: each of the five counters equals the number of loaded
\* records with that status, compared case-insensitively.
C4_CountersMatchStatuses ==
    StatsComputed
    => /\ attendanceStats.totalPresent = NumWithStatus(Spellings("present"))
       /\ attendanceStats.totalAbsent  = NumWithStatus(Spellings("absent"))
       /\ attendanceStats.totalLate    = NumWithStatus(Spellings("late"))
       /\ attendanceStats.totalLeave   = NumWithStatus(Spellings("leave"))
       /\ attendanceStats.totalOnTime  = NumWithStatus(Spellings("ontime"))

\* C4 amended: the counters for present, late, leave and ontime equal the
\* number of loaded records with that status (case-insensitively), and
\* totalAbsent equals the number of records whose status is absent or is
\* missing (undefined or empty); a record whose status is any other
\* non-empty string is counted in none of the five.
C4_CountersMatchStatusesAbsentDefault ==
    StatsComputed
    => /\ attendanceStats.totalPresent = NumWithStatus(Spellings("present"))
       /\ attendanceStats.totalAbsent  =
              NumWithStatus(Spellings("absent") \cup MissingStatus)
       /\ attendanceStats.totalLate    = NumWithStatus(Spellings("late"))
       /\ attendanceStats.totalLeave   = NumWithStatus(Spellings("leave"))
       /\ attendanceStats.totalOnTime  = NumWithStatus(Spellings("ontime"))

\* C4 witness: a mixed-case 'Present' and an 'Unknown' record were counted.
C4_Witness ==
    /\ StatsComputed
    /\ Len(attendanceRecords) = 2
    /\ attendanceRecords[1].status = "Present"
    /\ attendanceRecords[2].status = "Unknown"
    /\ attendanceStats.totalPresent = 1
    /\ attendanceStats.totalAbsent = 0

\* C5 as stated: records whose status is missing increment none of the five
\* counters, so a list of such records leaves all five at 0.
C5_MissingStatusCountsNowhere ==
    (/\ StatsComputed
     /\ \A i \in 1..Len(attendanceRecords) :
            attendanceRecords[i].status \in MissingStatus)
    => /\ attendanceStats.totalPresent = 0
       /\ attendanceStats.totalAbsent = 0
       /\ attendanceStats.totalLate = 0
       /\ attendanceStats.totalLeave = 0
       /\ attendanceStats.totalOnTime = 0

\* C5 amended: a record whose status is missing (undefined or empty)
\* increments totalAbsent by one and none of the other four counters.
C5_MissingStatusCountsAsAbsent ==
    StatsComputed
    => /\ attendanceStats.totalAbsent - NumWithStatus(Spellings("absent"))
              = NumWithStatus(MissingStatus)
       /\ attendanceStats.totalPresent + attendanceStats.totalLate
            + attendanceStats.totalLeave + attendanceStats.totalOnTime
              = NumWithStatus(Spellings("present") \cup Spellings("late")
                              \cup Spellings("leave") \cup Spellings("ontime"))

\* C5 witness: one record without a status and one with an empty status
\* were counted.
C5_Witness ==
    /\ StatsComputed
    /\ Len(attendanceRecords) = 2
    /\ attendanceRecords[1].status = Undefined
    /\ attendanceRecords[2].status = ""
    /\ attendanceStats.totalAbsent = 2

\* C6 as stated: for 'Day' totalStaff is the number of distinct user ids;
\* for another period it is totalItems when supplied, else the number of
\* loaded records.
C6_TotalStaff ==
    StatsComputed
    => attendanceStats.totalStaff =
           IF selectedPeriod = "Day" THEN DistinctUsers
           ELSE IF paginationData.totalItems.def THEN paginationData.totalItems.v
           ELSE Len(attendanceRecords)

\* C6 amended: for 'Day' totalStaff is the number of distinct user ids; for
\* another period it is totalItems when that is supplied and not 0, else
\* the number of loaded records.
C6_TotalStaffNonZeroTotalItems ==
    StatsComputed
    => attendanceStats.totalStaff =
           IF selectedPeriod = "Day" THEN DistinctUsers
           ELSE IF paginationData.totalItems.def /\ paginationData.totalItems.v > 0
                THEN paginationData.totalItems.v
           ELSE Len(attendanceRecords)

\* C6 witness: period 'Day', two records of the same user, counted once,
\* although totalItems says otherwise.
C6_Witness ==
    /\ StatsComputed
    /\ selectedPeriod = "Day"
    /\ Len(attendanceRecords) = 2
    /\ attendanceRecords[1].userId = attendanceRecords[2].userId
    /\ paginationData.totalItems = Some(5)
    /\ attendanceStats.totalStaff = 1

\* C7 as stated: with no loaded record all six fields are 0, whatever the
\* period and the pagination payload.
C7_EmptyGivesAllZero ==
    (StatsComputed /\ Len(attendanceRecords) = 0)
    => attendanceStats = ZeroStats

\* C7 amended: with no loaded record the five status counters are 0, and
\* totalStaff is 0 for 'Day' or when totalItems is absent or 0; for another
\* period with a positive totalItems, totalStaff is that totalItems.
C7_EmptyGivesZeroCounters ==
    (StatsComputed /\ Len(attendanceRecords) = 0)
    => /\ attendanceStats.totalPresent = 0
       /\ attendanceStats.totalAbsent = 0
       /\ attendanceStats.totalLate = 0
       /\ attendanceStats.totalLeave = 0
       /\ attendanceStats.totalOnTime = 0
       /\ attendanceStats.totalStaff =
              IF selectedPeriod # "Day" /\ paginationData.totalItems.def
              THEN paginationData.totalItems.v ELSE 0

\* C7 witness: an empty page of a 'Week' query whose payload says 5 items.
C7_Witness ==
    /\ StatsComputed
    /\ Len(attendanceRecords) = 0
    /\ selectedPeriod = "Week"
    /\ paginationData.totalItems = Some(5)
    /\ attendanceStats.totalStaff = 5

----------------------------------------------------------------------------
(* Properties of the work-duration functions.  ret holds the last call's   *)
(* result for the arguments checkIn and checkOut.                          *)

\* the text is a timestamp: ISO form with fields in range
WellFormed(x) == x.kind = "iso" /\ x.h < 24 /\ x.m < 60 /\ x.s < 60

\* seconds since the start of the month of a well-formed timestamp
SecondsOf(x) == x.d * 86400 + x.h * 3600 + x.m * 60 + x.s

BothWellFormed == WellFormed(checkIn) /\ WellFormed(checkOut)

ElapsedSeconds == SecondsOf(checkOut) - SecondsOf(checkIn)

ServiceCalled   == ret.op = "AttendanceService.calculateWorkingHours"
ComponentCalled == ret.op = "Attendance.getWorkingHours"
DashboardCalled == ret.op = "AdminDashboard.calculateWorkingHours"

\* the service's result is the zero duration
ServiceZero ==
    /\ ret.val.hours = [nan |-> FALSE, v |-> 0]
    /\ ret.val.minutes = [nan |-> FALSE, v |-> 0]
    /\ ~ret.val.total.nan
    /\ ret.val.total.num = 0

\* a component's text is "0H 0M" / "0h 0m"
TextZero == ret.val.hours = 0 /\ ret.val.minutes = 0

\* C8: for valid timestamps with checkOut earlier than checkIn, each of the
\* three work-duration functions returns the zero duration.
C8_NegativeClampedToZero ==
    (BothWellFormed /\ ElapsedSeconds < 0)
    => /\ ServiceCalled => ServiceZero
       /\ ComponentCalled => TextZero
       /\ DashboardCalled => TextZero

\* C8 witness: the service was called with checkOut a day and more before
\* checkIn and returned the zero duration.
C8_Witness ==
    /\ ServiceCalled
    /\ BothWellFormed
    /\ ElapsedSeconds < 0 - 86400
    /\ ServiceZero

\* C9: when checkIn or checkOut is null, empty or no timestamp, the service
\* and the Attendance component return the zero duration.
C9_InvalidGivesZero ==
    ~BothWellFormed
    => /\ ServiceCalled => ServiceZero
       /\ ComponentCalled => TextZero

\* C10 as stated: for valid timestamps with checkOut at or after checkIn,
\* total is the exact elapsed time in hours, hours = floor(total), and
\* minutes = floor(fractional hour * 60) within 0..59.
C10_TotalIsExactElapsed ==
    (ServiceCalled /\ BothWellFormed /\ ElapsedSeconds >= 0)
    => /\ ~ret.val.total.nan
       /\ ret.val.total.num * 3600 = ElapsedSeconds * ret.val.total.den
       /\ ret.val.hours.v = ret.val.total.num \div ret.val.total.den
       /\ ret.val.minutes.v =
              ((ret.val.total.num % ret.val.total.den) * 60) \div ret.val.total.den
       /\ ret.val.minutes.v \in 0..59

\* C10 amended: for valid timestamps with checkOut at or after checkIn,
\* total is the elapsed time cut down to whole minutes, in hours
\* (hours + minutes / 60), hours = floor(total), and
\* minutes = floor(fractional hour * 60) within 0..59.
C10_TotalIsElapsedWholeMinutes ==
    (ServiceCalled /\ BothWellFormed /\ ElapsedSeconds >= 0)
    => /\ ~ret.val.total.nan
       /\ ret.val.total.num * 60 = (ElapsedSeconds \div 60) * ret.val.total.den
       /\ ret.val.hours.v = ret.val.total.num \div ret.val.total.den
       /\ ret.val.minutes.v =
              ((ret.val.total.num % ret.val.total.den) * 60) \div ret.val.total.den
       /\ ret.val.minutes.v \in 0..59

\* C10 witness: 09:00:00 to 17:30:30 of the same day gives hours 8,
\* minutes 30 and total 8.5.
C10_Witness ==
    /\ ServiceCalled
    /\ checkIn  = [kind |-> "iso", d |-> 1, h |-> 9,  m |-> 0,  s |-> 0]
    /\ checkOut = [kind |-> "iso", d |-> 1, h |-> 17, m |-> 30, s |-> 30]
    /\ ret.val.hours.v = 8
    /\ ret.val.minutes.v = 30
    /\ ret.val.total.num * 2 = 17 * ret.val.total.den

----------------------------------------------------------------------------
(* Properties of the attendance points and the attendance percentage *)

ServicePointsCalled   == ret.op = "AttendanceService.calculateAttendancePoints"
ComponentPointsCalled == ret.op = "Attendance.getAttendancePoints"
PointsCalled == ServicePointsCalled \/ ComponentPointsCalled

ServicePercentageCalled   == ret.op = "AttendanceService.calculateAttendancePercentage"
ComponentPercentageCalled == ret.op = "Attendance.getAttendancePercentage"
PercentageCalled == ServicePercentageCalled \/ ComponentPercentageCalled

\* the points the function called last gives for other arguments
PointsBy(op, ci, co) ==
    IF op = "AttendanceService.calculateAttendancePoints"
    THEN calculateAttendancePoints(ci, co)
    ELSE getAttendancePoints(ci, co)

Min(a, b) == IF a < b THEN a ELSE b

\* C11: for valid timestamps with checkOut at or after checkIn, the points
\* are min(floor(elapsed hours) * 40, 320); they are 320 whenever
\* floor(elapsed hours) >= 8; and a later checkOut never gives fewer points.
C11_PointsCappedAndMonotone ==
    (PointsCalled /\ BothWellFormed /\ ElapsedSeconds >= 0)
    => /\ ~ret.val.nan
       /\ ret.val.v = Min((ElapsedSeconds \div 3600) * 40, 320)
       /\ (ElapsedSeconds \div 3600 >= 8 => ret.val.v = 320)
       /\ \A later \in IsoTimes :
              (WellFormed(later) /\ SecondsOf(later) >= SecondsOf(checkOut))
              => /\ ~PointsBy(ret.op, checkIn, later).nan
                 /\ PointsBy(ret.op, checkIn, later).v >= ret.val.v

\* C11 witness: the component was asked for 09:00:00 to 17:30:30 of the
\* next day, 32 whole hours, and answered 320.
C11_Witness ==
    /\ ComponentPointsCalled
    /\ checkIn  = [kind |-> "iso", d |-> 1, h |-> 9,  m |-> 0,  s |-> 0]
    /\ checkOut = [kind |-> "iso", d |-> 2, h |-> 17, m |-> 30, s |-> 30]
    /\ ret.val.v = 320

\* the arguments give a zero duration: a missing timestamp, or two valid
\* timestamps no time apart
ZeroElapsed ==
    \/ Falsy(checkIn)
    \/ Falsy(checkOut)
    \/ (BothWellFormed /\ ElapsedSeconds = 0)

\* C12: for all inputs the percentage is an integer in 0..100; it is 0 for a
\* zero duration and otherwise min(round(elapsed hours / 8 * 100), 100).
C12_PercentageWithinRange ==
    PercentageCalled
    => /\ ~ret.val.nan
       /\ ret.val.v \in 0..100
       /\ ZeroElapsed => ret.val.v = 0
       /\ (BothWellFormed /\ ElapsedSeconds > 0)
          => ret.val.v = Min(MathRound(ElapsedSeconds * 100, 3600 * 8), 100)

----------------------------------------------------------------------------
(* Ranking component *)

InitRank ==
    /\ srvRankPage \in RankPages
    /\ rkEmployees = <<>>
    /\ topThreeEmployees = <<>>
    /\ isLoading = FALSE
    /\ errorMessage = ""
    /\ rkPending = 0
    /\ rank = 1
    /\ HoursIdle
    /\ srvAttendance = NullPagination
    /\ AttendanceConstructed
    /\ srvDepartments = <<>>
    /\ srvRanked = <<>>
    /\ DashboardConstructed
    /\ ServerHoldsNothing
    /\ AttenreportConstructed
    /\ ReportServerHoldsNothing
    /\ DashboardEmployeeConstructed
    /\ ServicesConstructed

loadEmployeeRanking ==
    /\ rkPending < MaxPending
    /\ isLoading' = TRUE
    /\ errorMessage' = ""
    /\ rkPending' = rkPending + 1
    /\ UNCHANGED <<srvRankPage, rkEmployees, topThreeEmployees, rank,
                   hoursVars, attVars, dashVars, loadVars, pageVars>>

\* the response is ok and carries the page
RankingLoaded ==
    /\ rkPending > 0
    /\ rkPending' = rkPending - 1
    /\ rkEmployees' = SortByMonthlyRank(srvRankPage)
    /\ topThreeEmployees' = SliceTop3(SortByMonthlyRank(srvRankPage))
    /\ isLoading' = FALSE
    /\ UNCHANGED <<srvRankPage, errorMessage, rank, hoursVars, attVars, dashVars, loadVars, pageVars>>

\* the response is not ok or carries no data
RankingNotOk ==
    /\ rkPending > 0
    /\ rkPending' = rkPending - 1
    /\ isLoading' = FALSE
    /\ UNCHANGED <<srvRankPage, rkEmployees, topThreeEmployees, errorMessage,
                   rank, hoursVars, attVars, dashVars, loadVars, pageVars>>

\* the request fails
RankingFailed ==
    /\ rkPending > 0
    /\ rkPending' = rkPending - 1
    /\ errorMessage' = "Failed to load employee ranking. Please try again."
    /\ isLoading' = FALSE
    /\ UNCHANGED <<srvRankPage, rkEmployees, topThreeEmployees, rank,
                   hoursVars, attVars, dashVars, loadVars, pageVars>>

\* the dashboard's ranks request answers ok with the page
CallLoadEmployeeRanksMap ==
    /\ ret' = [op |-> "AdminDashboard.loadEmployeeRanks",
               val |-> loadEmployeeRanks_map(srvRankPage)]
    /\ UNCHANGED <<checkIn, checkOut, attVars, dashVars, loadVars, rankVars, pageVars>>

NextRank ==
    \/ loadEmployeeRanking
    \/ RankingLoaded
    \/ RankingNotOk
    \/ RankingFailed
    \/ CallLoadEmployeeRanksMap

SpecRank == InitRank /\ [][NextRank]_vars

----------------------------------------------------------------------------
(* Properties of the top-3 list *)

\* ids of the employees of a list
IdsOf(list) == {list[i].id : i \in 1..Len(list)}

\* top is a top-3 list of all: length min(3, length of all), ordered by
\* non-decreasing monthlyRank, drawn from all, and no employee of all that
\* is left out has a strictly smaller monthlyRank than one included
IsTopThreeOf(top, all) ==
    /\ Len(top) = Min(3, Len(all))
    /\ \A i \in 1..Len(top) : \A j \in 1..Len(top) :
           i < j => top[i].monthlyRank <= top[j].monthlyRank
    /\ \A i \in 1..Len(top) : \E k \in 1..Len(all) :
           all[k].id = top[i].id /\ all[k].monthlyRank = top[i].monthlyRank
    /\ Cardinality(IdsOf(top)) = Len(top)
    /\ \A k \in 1..Len(all) : \A i \in 1..Len(top) :
           all[k].id \notin IdsOf(top) => ~(all[k].monthlyRank < top[i].monthlyRank)

\* C13: the top-3 list of the Ranking component is a top-3 list of its
\* employee list, which holds the employees of the page once loaded; the
\* list handed to the dashboard by loadEmployeeRanks is a top-3 list of the
\* page: length min(3, n), non-decreasing monthlyRank, nobody left out with a
\* strictly smaller monthlyRank.
C13_TopThreeOrdered ==
    /\ IsTopThreeOf(topThreeEmployees, rkEmployees)
    /\ rkEmployees # <<>> => IdsOf(rkEmployees) = IdsOf(srvRankPage)
    /\ ret.op = "AdminDashboard.loadEmployeeRanks"
       => IsTopThreeOf(ret.val, srvRankPage)

\* C13 witness: the page holds ranks 2, 1, 3, 1 in this order and the
\* Ranking component shows the employees 2, 4, 1.
C13_Witness ==
    /\ Len(srvRankPage) = 4
    /\ [i \in 1..4 |-> srvRankPage[i].monthlyRank] = <<2, 1, 3, 1>>
    /\ [i \in 1..Len(topThreeEmployees) |-> topThreeEmployees[i].id] = <<2, 4, 1>>

----------------------------------------------------------------------------
(* Rank labels: Ranking.getRankLabel gives the text "<rank><suffix>", kept *)
(* as its two parts; Staffprofile.getDayRankSuffix gives the suffix alone. *)

MaxRankArg == 113    \* ranks 0..MaxRankArg are asked for

RankLabel(n, suffix) == [num |-> n, suffix |-> suffix]

getRankLabel(r) ==
    CASE r = 1 -> RankLabel(1, "st")
      [] r = 2 -> RankLabel(2, "nd")
      [] r = 3 -> RankLabel(3, "rd")
      [] OTHER -> RankLabel(r, "th")

getDayRankSuffix(r) ==
    IF r = 0 THEN ""
    ELSE LET lastDigit     == r % 10
             lastTwoDigits == r % 100
         IN  IF lastTwoDigits >= 11 /\ lastTwoDigits <= 13 THEN "th"
             ELSE CASE lastDigit = 1 -> "st"
                    [] lastDigit = 2 -> "nd"
                    [] lastDigit = 3 -> "rd"
                    [] OTHER -> "th"

InitLabel ==
    /\ rank \in 0..MaxRankArg
    /\ srvRankPage = <<>>
    /\ rkEmployees = <<>>
    /\ topThreeEmployees = <<>>
    /\ isLoading = FALSE
    /\ errorMessage = ""
    /\ rkPending = 0
    /\ HoursIdle
    /\ srvAttendance = NullPagination
    /\ AttendanceConstructed
    /\ srvDepartments = <<>>
    /\ srvRanked = <<>>
    /\ DashboardConstructed
    /\ ServerHoldsNothing
    /\ AttenreportConstructed
    /\ ReportServerHoldsNothing
    /\ DashboardEmployeeConstructed
    /\ ServicesConstructed

CallGetRankLabel ==
    /\ ret' = [op |-> "Ranking.getRankLabel", val |-> getRankLabel(rank)]
    /\ UNCHANGED <<checkIn, checkOut, attVars, dashVars, loadVars, otherVars>>

CallGetDayRankSuffix ==
    /\ ret' = [op |-> "Staffprofile.getDayRankSuffix",
               val |-> RankLabel(rank, getDayRankSuffix(rank))]
    /\ UNCHANGED <<checkIn, checkOut, attVars, dashVars, loadVars, otherVars>>

NextLabel ==
    \/ CallGetRankLabel
    \/ CallGetDayRankSuffix

SpecLabel == InitLabel /\ [][NextLabel]_vars

----------------------------------------------------------------------------
(* Properties of the rank labels *)

\* the English ordinal suffix of a positive integer
OrdinalSuffix(n) ==
    IF n % 100 \in {11, 12, 13} THEN "th"
    ELSE IF n % 10 = 1 THEN "st"
    ELSE IF n % 10 = 2 THEN "nd"
    ELSE IF n % 10 = 3 THEN "rd"
    ELSE "th"

\* C14: for every positive rank, the label is the rank followed by its
\* English ordinal suffix: 'th' for last two digits 11, 12, 13, otherwise
\* 'st', 'nd', 'rd' for last digit 1, 2, 3, and 'th' in every other case.
C14_LabelIsOrdinal ==
    (rank > 0 /\ ret.op \in {"Ranking.getRankLabel", "Staffprofile.getDayRankSuffix"})
    => /\ ret.val.num = rank
       /\ ret.val.suffix = OrdinalSuffix(rank)

----------------------------------------------------------------------------
(* AdminDashboard component, the five answers followed one by one, with    *)
(* ngOnDestroy.  A load is started only when no request is in flight.      *)

InitLoad ==
    /\ srvDepartments = <<[name |-> "Engineering"], [name |-> "Sales"]>>
    /\ srvRanked = <<[department |-> "Engineering", monthlyPoint |-> Some(3)]>>
    /\ srvEmployees = <<[deactivated |-> "false"], [deactivated |-> Undefined],
                        [deactivated |-> "true"]>>
    /\ srvRankPage = <<RankRow(1, 2), RankRow(2, 1)>>
    /\ srvTaskStats \in TaskStatsPayloads
    /\ srvDashAttendance \in {[hasPageData |-> TRUE, pageData |-> <<"a1">>],
                              [hasPageData |-> FALSE, pageData |-> <<>>]}
    /\ DashboardConstructed
    /\ rkEmployees = <<>>
    /\ topThreeEmployees = <<>>
    /\ isLoading = FALSE
    /\ errorMessage = ""
    /\ rkPending = 0
    /\ rank = 1
    /\ HoursIdle
    /\ srvAttendance = NullPagination
    /\ AttendanceConstructed
    /\ AttenreportConstructed
    /\ ReportServerHoldsNothing
    /\ DashboardEmployeeConstructed
    /\ ServicesConstructed

\* loadAllDashboardData: the five requests are sent
StartLoad ==
    /\ ~destroyed
    /\ forkPending = 0
    /\ rankPending = 0
    /\ loadAllDashboardData
    /\ fetch' = [n \in FetchNames |-> "pending"]
    /\ UNCHANGED <<srvDepartments, srvRanked, departments, totalDepartments,
                   rankPending, rankedEmployees, bestDepartment,
                   bestDepartmentPoints, srvLoadVars, filledVars, destroyed,
                   hoursVars, attVars, otherVars>>

LoadNgOnInit ==
    /\ dashOp = "constructed"
    /\ StartLoad
    /\ dashOp' = "ngOnInit"

LoadRefreshData ==
    /\ dashOp # "constructed"
    /\ StartLoad
    /\ UNCHANGED dashOp

\* one of the five requests is answered: ok with data, not ok, or with an
\* HTTP error; with the last answer the forkJoin handler runs
FetchAnswered(n, outcome) ==
    /\ fetch[n] = "pending"
    /\ takeUntil(destroyed)
    /\ fetch' = [fetch EXCEPT ![n] = IF outcome = "ok" THEN "ok" ELSE "failed"]
    /\ IF forkJoinReady(fetch')
       THEN /\ forkJoinNext(Results(fetch'))
            /\ forkPending' = 0
            /\ dashOp' = "dashboardLoaded"
       ELSE UNCHANGED <<departments, totalDepartments, rankPending, loading,
                        forkPending, dashOp, filledVars>>
    /\ UNCHANGED <<srvDepartments, srvRanked, rankedEmployees, bestDepartment,
                   bestDepartmentPoints, srvLoadVars, dashError, destroyed,
                   hoursVars, attVars, otherVars>>

\* ngOnDestroy: destroy$ emits and completes
DashNgOnDestroy ==
    /\ dashOp # "constructed"
    /\ ~destroyed
    /\ destroyed' = TRUE
    /\ UNCHANGED <<dashVars, srvLoadVars, fetch, filledVars, dashError,
                   hoursVars, attVars, otherVars>>

NextLoad ==
    \/ LoadNgOnInit
    \/ LoadRefreshData
    \/ \E n \in FetchNames : \E outcome \in {"ok", "notOk", "error"} :
           FetchAnswered(n, outcome)
    \/ RankedEmployeesLoaded
    \/ DashNgOnDestroy

SpecLoad == InitLoad /\ [][NextLoad]_vars

----------------------------------------------------------------------------
(* Properties of the dashboard load *)

\* every one of the five requests of the current load has been answered
LoadEnded == \A n \in FetchNames : fetch[n] \in {"ok", "failed"}

\* C15: once the load has ended with the task-stats request answered ok,
\* the held task statistics carry a number under total, under each of the
\* six status counts and under each of the four priority counts: the
\* payload's number where the payload has the key, 0 where it has not.
C15_TaskStatsZeroFilled ==
    (LoadEnded /\ fetch["taskStats"] = "ok")
    => \A k \in TaskKeys :
           /\ taskStats[k].def
           /\ taskStats[k].v = IF srvTaskStats[k].def THEN srvTaskStats[k].v ELSE 0

\* C16: whatever subset of the five requests failed, the load ends with
\* loading = false and error = null, a failed resource holds its empty or
\* zero default, and a resource answered ok holds the fetched data.
C16_FailuresIsolated ==
    LoadEnded
    => /\ loading = FALSE
       /\ dashError = Null
       /\ fetch["departments"] = "failed" => (departments = <<>> /\ totalDepartments = 0)
       /\ fetch["departments"] = "ok"
          => (departments = srvDepartments /\ totalDepartments = Len(srvDepartments))
       /\ fetch["employees"] = "failed"
          => (employees = <<>> /\ totalEmployees = 0 /\ activeEmployees = 0)
       /\ fetch["employees"] = "ok"
          => (employees = srvEmployees /\ totalEmployees = Len(srvEmployees))
       /\ fetch["topEmployees"] = "failed" => topEmployees = <<>>
       /\ fetch["topEmployees"] = "ok" => IsTopThreeOf(topEmployees, srvRankPage)
       /\ fetch["taskStats"] = "failed" => taskStats = [k \in TaskKeys |-> Some(0)]
       /\ fetch["taskStats"] = "ok" => taskStats = srvTaskStats
       /\ fetch["attendance"] = "failed" => dashAttendanceRecords = <<>>
       /\ fetch["attendance"] = "ok"
          => dashAttendanceRecords = srvDashAttendance.pageData

\* C16 witness: departments, ranks and attendance failed, employees and task
\* stats were answered ok; the employee list is the server's, the department
\* list is empty and the page is not loading.
C16_Witness ==
    /\ fetch = [n \in FetchNames |->
                   IF n \in {"employees", "taskStats"} THEN "ok" ELSE "failed"]
    /\ employees = srvEmployees
    /\ Len(employees) = 3
    /\ departments = <<>>
    /\ loading = FALSE

\* the values computed from the results
Aggregated ==
    <<totalEmployees, activeEmployees, totalDepartments, topEmployees,
      dashAttendanceRecords, bestDepartment>>

C19_NothingAfterDestroy ==
    [][destroyed
       => UNCHANGED <<departments, employees, topEmployees, taskStats,
                      dashAttendanceRecords, totalEmployees, activeEmployees,
                      totalDepartments, rankedEmployees, loading, dashError,
                      bestDepartment, bestDepartmentPoints>>]_vars

\* C19 witness: the component was destroyed while the ranked-employee
\* request, sent by the handler of a finished load, was in flight.
C19_Witness ==
    /\ destroyed
    /\ LoadEnded
    /\ rankPending > 0
    /\ bestDepartment = ""

----------------------------------------------------------------------------
(* Attenreport component: loadEmployeeAndAttendanceData.  The three        *)
(* sources have no catchError: a source that is answered not ok throws in  *)
(* its map step, and the first source to fail fails the forkJoin, which    *)
(* unsubscribes from the sources still in flight.                          *)

ReportPeriods == {"Month", "Week"}

InitReport ==
    /\ srvProfile \in {"emp-1", "emp-2"}
    /\ srvReportStats \in {ZeroReportStats,
                           [total |-> 5, stats |-> [k \in ReportStatKeys |-> 1]]}
    /\ srvReportRecords \in {[hasPageData |-> TRUE, pageData |-> <<"r1", "r2">>],
                             [hasPageData |-> TRUE, pageData |-> <<>>],
                             [hasPageData |-> FALSE, pageData |-> <<>>]}
    /\ AttenreportConstructed
    /\ RankingConstructed
    /\ HoursIdle
    /\ srvAttendance = NullPagination
    /\ AttendanceConstructed
    /\ srvDepartments = <<>>
    /\ srvRanked = <<>>
    /\ DashboardConstructed
    /\ ServerHoldsNothing
    /\ DashboardEmployeeConstructed
    /\ ServicesConstructed

loadEmployeeAndAttendanceData ==
    /\ \A n \in ReportFetchNames : arFetch[n] # "pending"
    /\ arLoading' = TRUE
    /\ arError' = Null
    /\ arFetch' = [n \in ReportFetchNames |-> "pending"]
    /\ UNCHANGED <<srvProfile, srvReportStats, srvReportRecords, arEmployee,
                   arAttendanceStatsData, arAttendanceRecords>>

\* ngOnInit with or without an employee id in the route
ReportNgOnInit(hasId) ==
    /\ arFetch = [n \in ReportFetchNames |-> "idle"]
    /\ arError = Null
    /\ IF hasId
       THEN loadEmployeeAndAttendanceData
       ELSE /\ arError' = "No employee ID provided"
            /\ arLoading' = FALSE
            /\ UNCHANGED <<srvProfile, srvReportStats, srvReportRecords, arFetch,
                           arEmployee, arAttendanceStatsData, arAttendanceRecords>>
    /\ UNCHANGED <<arSelectedPeriod, hoursVars, attVars, dashVars, loadVars, rankVars, empVars, svcVars>>

ReportChangePeriod(period) ==
    /\ arFetch # [n \in ReportFetchNames |-> "idle"]
    /\ arSelectedPeriod' = period
    /\ loadEmployeeAndAttendanceData
    /\ UNCHANGED <<hoursVars, attVars, dashVars, loadVars, rankVars, empVars, svcVars>>

\* what the three sources hand to forkJoin
ReportResults ==
    [employee |-> srvProfile, stats |-> srvReportStats, records |-> srvReportRecords]

\* a source is answered ok with data; with the last one the next handler runs
ReportAnswered(n) ==
    /\ arFetch[n] = "pending"
    /\ arFetch' = [arFetch EXCEPT ![n] = "ok"]
    /\ IF \A m \in ReportFetchNames : arFetch'[m] = "ok"
       THEN /\ arEmployee' = ReportResults.employee
            /\ arAttendanceStatsData' = ReportResults.stats
            /\ arAttendanceRecords' =
                   IF ReportResults.records.hasPageData
                   THEN ReportResults.records.pageData
                   ELSE arAttendanceRecords
            /\ arLoading' = FALSE
            /\ UNCHANGED arError
       ELSE UNCHANGED <<arEmployee, arAttendanceStatsData, arAttendanceRecords,
                        arLoading, arError>>
    /\ UNCHANGED <<srvProfile, srvReportStats, srvReportRecords, arSelectedPeriod,
                   hoursVars, attVars, dashVars, loadVars, rankVars, empVars, svcVars>>

\* a source is answered not ok or fails: the error handler runs
ReportFailed(n, outcome) ==
    /\ arFetch[n] = "pending"
    /\ arFetch' = [m \in ReportFetchNames |->
                      IF m = n THEN "failed"
                      ELSE IF arFetch[m] = "pending" THEN "unsubscribed"
                      ELSE arFetch[m]]
    /\ arError' = "Failed to load employee attendance data"
    /\ arLoading' = FALSE
    /\ UNCHANGED <<srvProfile, srvReportStats, srvReportRecords, arEmployee,
                   arAttendanceStatsData, arAttendanceRecords, arSelectedPeriod,
                   hoursVars, attVars, dashVars, loadVars, rankVars, empVars, svcVars>>

NextReport ==
    \/ \E hasId \in BOOLEAN : ReportNgOnInit(hasId)
    \/ \E period \in ReportPeriods : ReportChangePeriod(period)
    \/ \E n \in ReportFetchNames : ReportAnswered(n)
    \/ \E n \in ReportFetchNames : \E outcome \in {"notOk", "error"} :
           ReportFailed(n, outcome)

SpecReport == InitReport /\ [][NextReport]_vars

----------------------------------------------------------------------------
(* Properties of the report load *)

\* the load has ended with exactly one of the three requests failed
OneReportFetchFailed ==
    /\ \A n \in ReportFetchNames : arFetch[n] \notin {"idle", "pending"}
    /\ Cardinality({n \in ReportFetchNames : arFetch[n] = "failed"}) = 1

\* C17: when exactly one of the three requests fails or is answered not ok,
\* the page is not in the error state and is not loading, and the results of
\* the requests that were answered are stored.
C17_OneFailureIsolated ==
    OneReportFetchFailed
    => /\ arError = Null
       /\ arLoading = FALSE
       /\ arFetch["employee"] = "ok" => arEmployee = srvProfile
       /\ arFetch["stats"] = "ok" => arAttendanceStatsData = srvReportStats
       /\ (arFetch["records"] = "ok" /\ srvReportRecords.hasPageData)
          => arAttendanceRecords = srvReportRecords.pageData

----------------------------------------------------------------------------
(* DashboardEmployeeComponent: the requests of ngOnInit, the clock timer   *)
(* and ngOnDestroy.  No subscription of this component is tied to the      *)
(* teardown.  The server's answers are fixed samples; hours of the week    *)
(* are whole hours, today's hours are kept in seconds.                     *)

MaxTicks == 3        \* timer ticks followed after the clock is set

\* what the server answers: the user, the daily progress (totalPoint 2.5
\* and monthlyTotalPoint 2.5, in halves), the task stats, the notifications
\* (each kept as the category its date falls in) and the week of the report
SrvEmp ==
    [user |-> [firstName |-> "Ada", lastName |-> "Obi"],
     dailyProgress |-> [totalPoint |-> 5, monthlyTotalPoint |-> 5,
                        rank |-> 4, monthlyRank |-> 2],
     taskStats |-> [Completed |-> 3, InProgress |-> 1, Overdue |-> 0],
     notifications |-> <<"Today", "Older", "Today">>,
     week |-> <<[day |-> "MONDAY", hours |-> 9], [day |-> "TUESDAY", hours |-> 6],
                [day |-> "WEDNESDAY", hours |-> 0], [day |-> "SATURDAY", hours |-> 2]>>]
\* today.hours = 7198 / 3600
SrvTodaySeconds == 7198

\* groupNotifications: one group per category that occurs, Today first,
\* then Yesterday, then Older, each with the number of its tasks
groupNotifications(notifs) ==
    LET occurs(c) == \E i \in 1..Len(notifs) : notifs[i] = c
        groups == SelectSeq(<<"Today", "Yesterday", "Older">>, occurs)
    IN  [g \in 1..Len(groups) |->
            [category |-> groups[g],
             tasks |-> Cardinality({i \in 1..Len(notifs) : notifs[i] = groups[g]})]]

IsWeekday(w) == w.day \in {"MONDAY", "TUESDAY", "WEDNESDAY", "THURSDAY", "FRIDAY"}

\* the DisplayAttendance row of one day of the week
DisplayRow(w) ==
    LET hoursNum == w.hours
        percentage == IF hoursNum >= 8 THEN 100 ELSE MathRound(hoursNum * 100, 8)
    IN  [day |-> w.day,
         hours |-> hoursNum,
         percentage |-> Min(100, percentage),
         status |-> IF hoursNum >= 8 THEN "success"
                    ELSE IF hoursNum >= 6 THEN "warning" ELSE "danger"]

RECURSIVE SumHours(_)
SumHours(week) == IF week = <<>> THEN 0 ELSE Head(week).hours + SumHours(Tail(week))

\* decimalToHMS, for a number of hours given in seconds
decimalToHMS(secs) == [h |-> secs \div 3600, m |-> (secs % 3600) \div 60, s |-> secs % 60]

ClockSeconds(c) == c.h * 3600 + c.m * 60 + c.s

InitEmp ==
    /\ DashboardEmployeeConstructed
    /\ ServicesConstructed
    /\ AttenreportConstructed
    /\ ReportServerHoldsNothing
    /\ RankingConstructed
    /\ HoursIdle
    /\ srvAttendance = NullPagination
    /\ AttendanceConstructed
    /\ srvDepartments = <<>>
    /\ srvRanked = <<>>
    /\ DashboardConstructed
    /\ ServerHoldsNothing

NotEmp == <<hoursVars, attVars, dashVars, loadVars, rankVars, reportVars, svcVars>>

\* ngOnInit: fetchUser, fetchDailyProgress, fetchTaskStats,
\* fetchNotifications, fetchAttendanceData
EmpNgOnInit ==
    /\ ~empDestroyed
    /\ empFetch = [n \in EmpFetchNames |-> "idle"]
    /\ empFetch' = [n \in EmpFetchNames |-> "pending"]
    /\ UNCHANGED <<empDestroyed, empFields, timerInterval, NotEmp>>

\* the subscriber of one of the four single requests: an answer that is not
\* ok, and an error (turned into { ok: false } by catchError), change nothing
EmpAnswered(n, outcome) ==
    /\ n \in {"user", "dailyProgress", "taskStats", "notifications"}
    /\ empFetch[n] = "pending"
    /\ empFetch' = [empFetch EXCEPT ![n] = IF outcome = "ok" THEN "ok" ELSE "failed"]
    /\ userName' = IF n = "user" /\ outcome = "ok"
                   THEN [first |-> SrvEmp.user.firstName, last |-> SrvEmp.user.lastName]
                   ELSE userName
    /\ summary' = IF n = "dailyProgress" /\ outcome = "ok"
                  THEN [pointToday  |-> SrvEmp.dailyProgress.totalPoint \div 2,
                        monthPoint  |-> MathRoundHalves(SrvEmp.dailyProgress.monthlyTotalPoint),
                        dailyRank   |-> SrvEmp.dailyProgress.rank,
                        monthlyRank |-> SrvEmp.dailyProgress.monthlyRank]
                  ELSE summary
    /\ empTaskStats' = IF n = "taskStats" /\ outcome = "ok"
                       THEN [completed  |-> SrvEmp.taskStats.Completed,
                             inProgress |-> SrvEmp.taskStats.InProgress,
                             overdue    |-> SrvEmp.taskStats.Overdue]
                       ELSE empTaskStats
    /\ notifications' = IF n = "notifications" /\ outcome = "ok"
                        THEN groupNotifications(SrvEmp.notifications)
                        ELSE notifications
    /\ UNCHANGED <<empDestroyed, progress, empAttendance, totalWeeklyHours,
                   weeklyPercentage, clock, timerInterval, NotEmp>>

\* startTimer: a former interval is cleared and a new one is set
startTimer == timerInterval' = "running"

\* one source of the forkJoin of fetchAttendanceData is answered; with the
\* second answer the subscriber runs, and acts when both are ok
EmpForkAnswered(n, outcome) ==
    /\ n \in {"attendance", "report"}
    /\ empFetch[n] = "pending"
    /\ empFetch' = [empFetch EXCEPT ![n] = IF outcome = "ok" THEN "ok" ELSE "failed"]
    /\ IF empFetch'["attendance"] = "ok" /\ empFetch'["report"] = "ok"
       THEN LET week == SelectSeq(SrvEmp.week, IsWeekday)
                rows == [i \in 1..Len(week) |-> DisplayRow(week[i])]
                totalHoursNum == SumHours(SrvEmp.week)
                workingDays == Len(week)
                daysPresent == Cardinality({i \in 1..Len(rows) : rows[i].hours # 0})
            IN  /\ empAttendance' = rows
                /\ totalWeeklyHours' = totalHoursNum
                /\ weeklyPercentage' = Min(100, MathRound(totalHoursNum * 100, 40))
                /\ progress' = [attendanceRate |-> MathRound(daysPresent * 100, workingDays),
                                daysPresent |-> daysPresent,
                                daysTotal |-> workingDays]
                /\ clock' = decimalToHMS(SrvTodaySeconds)
                /\ startTimer
       ELSE UNCHANGED <<empAttendance, totalWeeklyHours, weeklyPercentage,
                        progress, clock, timerInterval>>
    /\ UNCHANGED <<empDestroyed, userName, summary, empTaskStats, notifications, NotEmp>>

\* the interval callback of startTimer
TimerTick ==
    /\ timerInterval = "running"
    /\ ClockSeconds(clock) < SrvTodaySeconds + MaxTicks
    /\ LET s1 == clock.s + 1
           m1 == IF s1 >= 60 THEN clock.m + 1 ELSE clock.m
       IN  clock' = [s |-> IF s1 >= 60 THEN 0 ELSE s1,
                     m |-> IF m1 >= 60 THEN 0 ELSE m1,
                     h |-> IF m1 >= 60 THEN clock.h + 1 ELSE clock.h]
    /\ UNCHANGED <<empFetch, empDestroyed, userName, summary, progress,
                   empTaskStats, notifications, empAttendance, totalWeeklyHours,
                   weeklyPercentage, timerInterval, NotEmp>>

\* ngOnDestroy: if (this.timerInterval) clearInterval(this.timerInterval)
EmpNgOnDestroy ==
    /\ ~empDestroyed
    /\ empFetch # [n \in EmpFetchNames |-> "idle"]
    /\ empDestroyed' = TRUE
    /\ timerInterval' = IF timerInterval = "running" THEN "cleared" ELSE timerInterval
    /\ UNCHANGED <<empFetch, empFields, NotEmp>>

NextEmp ==
    \/ EmpNgOnInit
    \/ \E n \in EmpFetchNames : \E outcome \in {"ok", "notOk", "error"} :
           EmpAnswered(n, outcome)
    \/ \E n \in EmpFetchNames : \E outcome \in {"ok", "notOk", "error"} :
           EmpForkAnswered(n, outcome)
    \/ TimerTick
    \/ EmpNgOnDestroy

SpecEmp == InitEmp /\ [][NextEmp]_vars

----------------------------------------------------------------------------
(* Properties of the employee dashboard's teardown *)

\* C20: after ngOnDestroy no step changes a field of the component, and no
\* interval of the component is running.
C20_QuietAfterDestroy ==
    /\ [][empDestroyed => UNCHANGED empFields]_vars
    /\ [](empDestroyed => timerInterval # "running")

----------------------------------------------------------------------------
(* Consumers of list endpoints.  A response is { ok, data }; data is a      *)
(* direct array, a page object holding the array in pageData, or missing.   *)
(* A JavaScript value that may be an array or undefined carries its kind.   *)

JsArray(items) == [kind |-> "array", items |-> items]
JsPage(items)  == [kind |-> "page", pageData |-> items]
JsUndefined    == [kind |-> "undefined"]

Responses ==
    {[ok |-> o, data |-> d] :
        o \in BOOLEAN,
        d \in {JsArray(l) : l \in RankPages} \cup {JsPage(l) : l \in RankPages}
              \cup {JsUndefined}}

\* TaskService.normalizePageData (a non-empty page object is truthy, and so
\* is its pageData array, empty or not)
normalizePageData(r) ==
    IF ~r.ok THEN <<>>
    ELSE IF r.data.kind = "page" THEN r.data.pageData
    ELSE IF r.data.kind = "array" THEN r.data.items
    ELSE <<>>

\* response.data read as the PaginatedAttendance the dashboard takes it for:
\* an array has no pageData property
AsAttendancePage(data) ==
    [hasPageData |-> data.kind = "page",
     pageData |-> IF data.kind = "page" THEN data.pageData ELSE <<>>]

\* the map step of AdminDashboard.loadTodayAttendance
loadTodayAttendance_map(r) ==
    IF r.ok /\ r.data.kind # "undefined" THEN AsAttendancePage(r.data)
    ELSE DefaultAttendancePage

\* the next handler of Ranking.loadEmployeeRanking, run on a component whose
\* employees list is prev and whose isLoading was set by the call; sort on
\* undefined raises a TypeError, which ends the handler where it stands
loadEmployeeRanking_next(r, prev) ==
    IF r.ok /\ r.data.kind # "undefined"
    THEN IF r.data.kind = "page"
         THEN [employees |-> JsArray(SortByMonthlyRank(r.data.pageData)),
               topThreeEmployees |-> SliceTop3(SortByMonthlyRank(r.data.pageData)),
               isLoading |-> FALSE, raised |-> "none"]
         ELSE [employees |-> JsUndefined,
               topThreeEmployees |-> SliceTop3(prev),
               isLoading |-> TRUE, raised |-> "TypeError"]
    ELSE [employees |-> JsArray(prev),
          topThreeEmployees |-> SliceTop3(prev),
          isLoading |-> FALSE, raised |-> "none"]

\* the lists a Ranking component may hold when a response arrives: none on
\* the first load, the previous page on a reload
PreviousPages == {<<>>, <<RankRow(1, 1)>>}

\* every component of the earlier sections is as constructed
EarlierConstructed ==
    /\ srvAttendance = NullPagination
    /\ AttendanceConstructed
    /\ srvDepartments = <<>>
    /\ srvRanked = <<>>
    /\ DashboardConstructed
    /\ ServerHoldsNothing
    /\ RankingConstructed
    /\ AttenreportConstructed
    /\ ReportServerHoldsNothing
    /\ DashboardEmployeeConstructed

earlierVars == <<attVars, dashVars, loadVars, rankVars, reportVars, empVars>>

InitEnvelope ==
    /\ response \in Responses
    /\ HoursIdle
    /\ EarlierConstructed
    /\ srvTasks = <<>>
    /\ TasksConstructed
    /\ srvByPeriod = [p \in Periods |-> NullPagination]
    /\ attInFlight = <<>>
    /\ AuthConstructed
    /\ weekRecords = <<>>
    /\ InnovationConstructed

CallNormalizePageData ==
    /\ ret' = [op |-> "TaskService.normalizePageData",
               val |-> [list |-> JsArray(normalizePageData(response)),
                        raised |-> "none"]]
    /\ UNCHANGED <<checkIn, checkOut, earlierVars, svcVars>>

\* the dashboard's attendanceRecords once the forkJoin handler has taken the
\* attendance result
CallLoadTodayAttendance ==
    /\ ret' = [op |-> "AdminDashboard.loadTodayAttendance",
               val |-> [list |-> JsArray(PageDataOrEmpty(loadTodayAttendance_map(response))),
                        raised |-> "none"]]
    /\ UNCHANGED <<checkIn, checkOut, earlierVars, svcVars>>

CallLoadEmployeeRankingNext(prev) ==
    /\ ret' = [op |-> "Ranking.loadEmployeeRanking",
               val |-> [list |-> loadEmployeeRanking_next(response, prev).employees,
                        raised |-> loadEmployeeRanking_next(response, prev).raised]]
    /\ UNCHANGED <<checkIn, checkOut, earlierVars, svcVars>>

NextEnvelope ==
    \/ CallNormalizePageData
    \/ CallLoadTodayAttendance
    \/ \E prev \in PreviousPages : CallLoadEmployeeRankingNext(prev)

SpecEnvelope == InitEnvelope /\ [][NextEnvelope]_vars

ListConsumers == {"TaskService.normalizePageData",
                  "AdminDashboard.loadTodayAttendance",
                  "Ranking.loadEmployeeRanking"}

\* the items an ok response carries, whichever envelope holds them
ItemsOf(r) ==
    IF r.data.kind = "page" THEN r.data.pageData
    ELSE IF r.data.kind = "array" THEN r.data.items
    ELSE <<>>

\* C21: each list consumer ends up with the items of an ok response whether
\* they come as a direct array or inside pageData (Ranking in the order of
\* its sort), and with an empty list, nothing raised, when the response is
\* not ok.
C21_EnvelopesEquivalent ==
    ret.op \in ListConsumers =>
        /\ ret.val.raised = "none"
        /\ ret.val.list =
             IF ~response.ok THEN JsArray(<<>>)
             ELSE IF ret.op = "Ranking.loadEmployeeRanking"
                     /\ response.data.kind # "undefined"
                  THEN JsArray(SortByMonthlyRank(ItemsOf(response)))
                  ELSE JsArray(ItemsOf(response))

----------------------------------------------------------------------------
(* TaskService (tasks$, getAllTasks, deleteTasks) and the Alltask page.     *)
(* A task carries its id and its createdAt; the search term of Alltask is   *)
(* empty, and its statistics and project requests, which write fields of    *)
(* their own, are not followed.                                             *)

MaxTasks        == 2    \* tasks the server holds at the start
MaxTaskRequests == 3    \* getAllTasks requests in flight
IssuedModulus   == 2    \* the count of requests issued wraps around here

\* the count of requests issued after n more
Issued(n) == (taskIssued + n) % IssuedModulus

\* the id lists deleteTasks is called with: none, one task, two tasks, and a
\* task together with an id the list never held
DeleteSamples == {{}, {"t1"}, {"t2", "t3"}, {"t1", "t9"}}

TaskPool == {[id |-> "t1", createdAt |-> 1], [id |-> "t2", createdAt |-> 2],
             [id |-> "t3", createdAt |-> 2]}

\* lists of distinct tasks
TaskLists ==
    {l \in SeqsUpTo(TaskPool, MaxTasks) :
        \A i, j \in 1..Len(l) : i # j => l[i] # l[j]}

\* the fields of a raw task that mapTaskData copies
mapTaskData(task) == [id |-> task.id, createdAt |-> task.createdAt]

MapTasks(raw) == [i \in 1..Len(raw) |-> mapTaskData(raw[i])]

\* x put into a list sorted by (a, b) => dateB.getTime() - dateA.getTime()
RECURSIVE InsertByCreated(_, _)
InsertByCreated(x, sorted) ==
    IF sorted = <<>> THEN <<x>>
    ELSE IF x.createdAt - Head(sorted).createdAt <= 0
         THEN <<Head(sorted)>> \o InsertByCreated(x, Tail(sorted))
         ELSE <<x>> \o sorted

\* Alltask.sortTasksByCreatedDate: most recent first, a stable sort
RECURSIVE sortTasksByCreatedDate(_)
sortTasksByCreatedDate(tasks) ==
    IF tasks = <<>> THEN <<>>
    ELSE InsertByCreated(tasks[Len(tasks)],
                         sortTasksByCreatedDate(SubSeq(tasks, 1, Len(tasks) - 1)))

\* faulty variant: the tasks named are the ones kept
FilterTasks_KeepNamed(tasks, ids) == SelectSeq(tasks, LAMBDA t : t.id \in ids)

\* currentTasks.filter(task => !taskIds.includes(task.id))
FilterTasks(tasks, ids) == SelectSeq(tasks, LAMBDA t : t.id \notin ids)

InitTasks ==
    /\ srvTasks \in TaskLists
    /\ TasksConstructed
    /\ response = NoResponse
    /\ srvByPeriod = [p \in Periods |-> NullPagination]
    /\ attInFlight = <<>>
    /\ AuthConstructed
    /\ weekRecords = <<>>
    /\ InnovationConstructed
    /\ HoursIdle
    /\ EarlierConstructed

notTaskVars == <<hoursVars, earlierVars, envVars, raceVars, authVars, profVars,
                 innoVars>>

\* Alltask.ngOnInit: loadTasks, then subscribeToTaskUpdates, whose tasks$
\* subscription receives the current value at once and calls loadTasks again
AlltaskNgOnInit ==
    /\ atLife = "constructed"
    /\ taskRequests + 2 <= MaxTaskRequests
    /\ atLife' = "subscribed"
    /\ atIsLoading' = TRUE
    /\ taskRequests' = taskRequests + 2
    /\ taskIssued' = Issued(2)
    /\ UNCHANGED <<srvTasks, tasksSubject, deleteRequests, atTasks, allTasks,
                   filteredTasks, atTotalItems, taskOp, undisturbed, notTaskVars>>

\* Alltask.reloadTasks, a user action
reloadTasks ==
    /\ atLife = "subscribed"
    /\ taskRequests < MaxTaskRequests
    /\ atIsLoading' = TRUE
    /\ taskRequests' = taskRequests + 1
    /\ taskIssued' = Issued(1)
    /\ undisturbed' = FALSE
    /\ UNCHANGED <<srvTasks, tasksSubject, deleteRequests, atLife, atTasks,
                   allTasks, filteredTasks, atTotalItems, taskOp, notTaskVars>>

\* a getAllTasks request of Alltask answers ok: the map step of the service
\* pushes the mapped tasks to tasksSubject, Alltask's tasks$ subscription
\* calls loadTasks, and then the next handler of the answered request runs;
\* it sorts the array it was handed, which is the one tasksSubject holds
TasksLoaded ==
    /\ atLife = "subscribed"
    /\ taskRequests > 0
    /\ tasksSubject' = sortTasksByCreatedDate(MapTasks(normalizePageData(
                           [ok |-> TRUE, data |-> JsPage(srvTasks)])))
    /\ taskRequests' = (taskRequests - 1) + 1
    /\ taskIssued' = Issued(1)
    /\ allTasks' = tasksSubject'
    /\ filteredTasks' = tasksSubject'
    /\ atTasks' = tasksSubject'
    /\ atTotalItems' = Len(tasksSubject')
    /\ atIsLoading' = FALSE
    /\ UNCHANGED <<srvTasks, deleteRequests, atLife, taskOp, undisturbed, notTaskVars>>

\* a getAllTasks request answers not ok, or fails: both handlers clear the
\* lists
TasksNotLoaded ==
    /\ atLife = "subscribed"
    /\ taskRequests > 0
    /\ taskRequests' = taskRequests - 1
    /\ allTasks' = <<>>
    /\ filteredTasks' = <<>>
    /\ atTasks' = <<>>
    /\ atTotalItems' = 0
    /\ atIsLoading' = FALSE
    /\ undisturbed' = FALSE
    /\ UNCHANGED <<srvTasks, tasksSubject, taskIssued, deleteRequests, atLife,
                   taskOp, notTaskVars>>

\* TaskService.deleteTasks(ids), subscribed by its caller
deleteTasks(ids) ==
    /\ deleteRequests = {}
    /\ taskRequests < MaxTaskRequests
    /\ deleteRequests' = {ids}
    /\ undisturbed' = FALSE
    /\ UNCHANGED <<srvTasks, tasksSubject, taskRequests, taskIssued, atLife,
                   atFields, taskOp, notTaskVars>>

\* the delete request answers ok: the tap step filters the current value of
\* tasksSubject and pushes it, and a subscribed Alltask calls loadTasks
DeleteOk(ids) ==
    /\ ids \in deleteRequests
    /\ deleteRequests' = deleteRequests \ {ids}
    /\ srvTasks' = SelectSeq(srvTasks, LAMBDA t : t.id \notin ids)
    /\ tasksSubject' = FilterTasks(tasksSubject, ids)
    /\ taskOp' = [op |-> "deleteTasks", outcome |-> "ok",
                  removed |-> Len(tasksSubject) - Len(tasksSubject')]
    /\ IF atLife = "subscribed"
       THEN /\ atIsLoading' = TRUE
            /\ taskRequests' = taskRequests + 1
            /\ taskIssued' = Issued(1)
       ELSE UNCHANGED <<atIsLoading, taskRequests, taskIssued>>
    /\ UNCHANGED <<atLife, atTasks, allTasks, filteredTasks, atTotalItems,
                   undisturbed, notTaskVars>>

\* the delete request answers not ok, or fails and handleError rethrows
DeleteNotOk(ids, outcome) ==
    /\ ids \in deleteRequests
    /\ deleteRequests' = deleteRequests \ {ids}
    /\ taskOp' = [op |-> "deleteTasks", outcome |-> outcome, removed |-> 0]
    /\ UNCHANGED <<srvTasks, tasksSubject, taskRequests, taskIssued, atLife,
                   atFields, undisturbed, notTaskVars>>

\* Alltask.ngOnDestroy: takeUntil(destroy$) ends the tasks$ subscription and
\* the requests of the component
AlltaskNgOnDestroy ==
    /\ atLife = "subscribed"
    /\ atLife' = "destroyed"
    /\ taskRequests' = 0
    /\ undisturbed' = FALSE
    /\ UNCHANGED <<srvTasks, tasksSubject, taskIssued, deleteRequests, atFields,
                   taskOp, notTaskVars>>

TasksAnswered == TasksLoaded \/ TasksNotLoaded

NextTasks ==
    \/ AlltaskNgOnInit
    \/ reloadTasks
    \/ TasksLoaded
    \/ TasksNotLoaded
    \/ \E ids \in DeleteSamples : deleteTasks(ids)
    \/ \E ids \in DeleteSamples : DeleteOk(ids)
    \/ \E ids \in DeleteSamples, outcome \in {"notOk", "error"} :
           DeleteNotOk(ids, outcome)
    \/ AlltaskNgOnDestroy

SpecTasks == InitTasks /\ [][NextTasks]_vars

\* every request in flight is answered in the end
SpecTasksLive == SpecTasks /\ WF_vars(TasksAnswered)

\* C22: after Alltask.ngOnInit, with every request answered ok and no user
\* action, the task-list requests come to an end: from some point on no
\* getAllTasks request is in flight and isLoading is false.
C22_RequestsComeToAnEnd ==
    []undisturbed => <>[](taskRequests = 0 /\ ~atIsLoading)

\* the tasks of a list whose id is not among ids, in the order of the list
RECURSIVE Without(_, _)
Without(list, ids) ==
    IF list = <<>> THEN <<>>
    ELSE IF Head(list).id \in ids THEN Without(Tail(list), ids)
         ELSE <<Head(list)>> \o Without(Tail(list), ids)

\* C29: when a deleteTasks(ids) response has been processed, tasks$ holds
\* the previous list without the tasks whose id is in ids, in the same
\* order, if the response was ok, and the previous list otherwise.
C29_DeleteFiltersExactly ==
    [][\A ids \in deleteRequests :
           deleteRequests' = deleteRequests \ {ids}
           => tasksSubject' = IF taskOp'.outcome = "ok"
                              THEN Without(tasksSubject, ids)
                              ELSE tasksSubject]_vars

\* an ok delete response took one of two tasks out of the list
C29_Witness ==
    /\ taskOp.op = "deleteTasks"
    /\ taskOp.outcome = "ok"
    /\ taskOp.removed = 1
    /\ Len(tasksSubject) = 1
    /\ deleteRequests = {}

----------------------------------------------------------------------------
(* Attendance component, requests overlapping.  The URL of a request names  *)
(* the period selected when it was issued (the page number is not sent), so *)
(* the server's answer depends on that period alone.  Every request is      *)
(* answered ok here, in any order.                                          *)

MaxInFlight == 2    \* attendance requests in flight

RaceRecords == {[status |-> "Present", userId |-> "u1"],
                [status |-> "LATE", userId |-> "u2"]}

RacePayloads ==
    [isNull : {FALSE}, totalItems : {NoNumber, Some(5)}, hasPageData : {TRUE},
     pageData : SeqsUpTo(RaceRecords, 1)]

InitRace ==
    /\ srvByPeriod \in [Periods -> RacePayloads]
    /\ attInFlight = <<>>
    /\ srvAttendance = NullPagination
    /\ AttendanceConstructed
    /\ HoursIdle
    /\ srvDepartments = <<>>
    /\ srvRanked = <<>>
    /\ DashboardConstructed
    /\ ServerHoldsNothing
    /\ RankingConstructed
    /\ AttenreportConstructed
    /\ ReportServerHoldsNothing
    /\ DashboardEmployeeConstructed
    /\ response = NoResponse
    /\ srvTasks = <<>>
    /\ TasksConstructed
    /\ AuthConstructed
    /\ weekRecords = <<>>
    /\ InnovationConstructed

notRaceVars == <<hoursVars, dashVars, loadVars, rankVars, reportVars, empVars,
                 envVars, taskVars, authVars, profVars, innoVars>>

\* loadAttendanceData up to the point where the request for the period now
\* selected is sent
SendAttendanceRequest(period) ==
    /\ Len(attInFlight) < MaxInFlight
    /\ attLoading' = TRUE
    /\ attError' = Null
    /\ attInFlight' = Append(attInFlight, period)
    /\ attPending' = Len(attInFlight')

RaceNgOnInit ==
    /\ attOp = "constructed"
    /\ SendAttendanceRequest(selectedPeriod)
    /\ attOp' = "ngOnInit"
    /\ UNCHANGED <<srvAttendance, srvByPeriod, attendanceRecords, paginationData,
                   selectedPeriod, attendanceStats, notRaceVars>>

RaceChangePeriod(period) ==
    /\ attOp # "constructed"
    /\ selectedPeriod' = period
    /\ SendAttendanceRequest(period)
    /\ attOp' = "changePeriod"
    /\ UNCHANGED <<srvAttendance, srvByPeriod, attendanceRecords, paginationData,
                   attendanceStats, notRaceVars>>

\* loadPage(page) for a page within 1..totalPages
RaceLoadPage ==
    /\ attOp # "constructed"
    /\ ~paginationData.isNull
    /\ SendAttendanceRequest(selectedPeriod)
    /\ UNCHANGED <<srvAttendance, srvByPeriod, attendanceRecords, paginationData,
                   selectedPeriod, attendanceStats, attOp, notRaceVars>>

RaceRefreshData ==
    /\ attOp # "constructed"
    /\ SendAttendanceRequest(selectedPeriod)
    /\ UNCHANGED <<srvAttendance, srvByPeriod, attendanceRecords, paginationData,
                   selectedPeriod, attendanceStats, attOp, notRaceVars>>

\* a sequence without its i-th element
RemoveAt(q, i) == SubSeq(q, 1, i - 1) \o SubSeq(q, i + 1, Len(q))

\* the next handler for the answer to the i-th request in flight, which was
\* issued for the period attInFlight[i]
RaceLoaded(i) ==
    /\ i \in 1..Len(attInFlight)
    /\ paginationData' = srvByPeriod[attInFlight[i]]
    /\ attendanceRecords' =
           IF paginationData'.hasPageData THEN paginationData'.pageData ELSE <<>>
    /\ attendanceStats' =
           calculateStats(selectedPeriod, paginationData', attendanceRecords')
    /\ attLoading' = FALSE
    /\ attInFlight' = RemoveAt(attInFlight, i)
    /\ attPending' = Len(attInFlight')
    /\ attOp' = "loaded"
    /\ UNCHANGED <<srvAttendance, srvByPeriod, selectedPeriod, attError, notRaceVars>>

NextRace ==
    \/ RaceNgOnInit
    \/ \E period \in Periods : RaceChangePeriod(period)
    \/ RaceLoadPage
    \/ RaceRefreshData
    \/ \E i \in 1..MaxInFlight : RaceLoaded(i)

SpecRace == InitRace /\ [][NextRace]_vars

\* C23: once every request issued has been answered, attendanceRecords and
\* attendanceStats are those of the response for the period now selected,
\* which is the one the most recent request asked for.
C23_LatestRequestWins ==
    (attOp = "loaded" /\ attInFlight = <<>>) =>
        /\ attendanceRecords = srvByPeriod[selectedPeriod].pageData
        /\ attendanceStats = calculateStats(selectedPeriod,
                                            srvByPeriod[selectedPeriod],
                                            srvByPeriod[selectedPeriod].pageData)

----------------------------------------------------------------------------
(* AuthService.  localStorage holds strings; an item that is not there      *)
(* reads as null.  The user item is the JSON text of a user, or a text that *)
(* JSON.parse rejects.                                                      *)

MaxRefresh == 2    \* refresh requests in flight

TokenSamples == {"", "token1", "token2"}
UserSamples  == {"alice", "bob"}

\* JSON.stringify(user)
JsonStringify(user) == "json:" \o user

GarbageJson == "{not json"

\* JSON.parse(text) for the texts of the model; "SyntaxError" when it throws
JsonParse(text) ==
    CASE text = JsonStringify("alice") -> "alice"
      [] text = JsonStringify("bob")   -> "bob"
      [] OTHER                         -> "SyntaxError"

\* what a browser may hold when the service is constructed
SavedStorages ==
    [access_token : {Null, "token1"}, refresh_token : {Null, "refresh1"},
     user : {Null, JsonStringify("alice"), GarbageJson}]

\* the storage after logout's three removeItem calls
RemoveSession(storage) ==
    [storage EXCEPT !.access_token = Null, !.refresh_token = Null, !.user = Null]

\* isLoggedIn(): !!localStorage.getItem('access_token')
isLoggedIn == Truthy(localStorage.access_token)

\* the constructor's checkSavedSession has run on the saved storage
InitAuth ==
    /\ \E saved \in SavedStorages :
         IF Truthy(saved.access_token) /\ Truthy(saved.user)
         THEN IF JsonParse(saved.user) # "SyntaxError"
              THEN /\ localStorage = saved
                   /\ currentUserSubject = JsonParse(saved.user)
                   /\ route = "/"
                   /\ loggedOut = FALSE
              ELSE /\ localStorage = RemoveSession(saved)
                   /\ currentUserSubject = Null
                   /\ route = "/signin"
                   /\ loggedOut = TRUE
         ELSE /\ localStorage = saved
              /\ currentUserSubject = Null
              /\ route = "/"
              /\ loggedOut = FALSE
    /\ refreshRequests = 0
    /\ HoursIdle
    /\ EarlierConstructed
    /\ response = NoResponse
    /\ srvTasks = <<>>
    /\ TasksConstructed
    /\ srvByPeriod = [p \in Periods |-> NullPagination]
    /\ attInFlight = <<>>
    /\ weekRecords = <<>>
    /\ InnovationConstructed

notAuthVars == <<checkIn, checkOut, earlierVars, envVars, taskVars, raceVars,
                 profVars, innoVars>>

\* login(accessToken, user, refreshToken?)
login(accessToken, user, refreshToken) ==
    /\ localStorage' =
         [access_token  |-> accessToken,
          refresh_token |-> IF Truthy(refreshToken) THEN refreshToken
                            ELSE localStorage.refresh_token,
          user          |-> JsonStringify(user)]
    /\ currentUserSubject' = user
    /\ loggedOut' = FALSE
    /\ UNCHANGED <<route, refreshRequests, ret, notAuthVars>>

\* what logout() does to the service
Logout ==
    /\ localStorage' = RemoveSession(localStorage)
    /\ currentUserSubject' = Null
    /\ route' = "/signin"
    /\ loggedOut' = TRUE

logout ==
    /\ Logout
    /\ UNCHANGED <<refreshRequests, ret, notAuthVars>>

\* refreshToken(), subscribed by its caller: without a refresh token the
\* result is false at once, with one the request is sent
refreshToken ==
    /\ IF ~Truthy(localStorage.refresh_token)
       THEN /\ ret' = [op |-> "AuthService.refreshToken", val |-> FALSE]
            /\ UNCHANGED refreshRequests
       ELSE /\ refreshRequests < MaxRefresh
            /\ refreshRequests' = refreshRequests + 1
            /\ UNCHANGED ret
    /\ UNCHANGED <<localStorage, currentUserSubject, route, loggedOut, notAuthVars>>

\* the refresh request answers ok with a new access token
RefreshOk(accessToken) ==
    /\ refreshRequests > 0
    /\ refreshRequests' = refreshRequests - 1
    /\ localStorage' = [localStorage EXCEPT !.access_token = accessToken]
    /\ ret' = [op |-> "AuthService.refreshToken", val |-> TRUE]
    /\ UNCHANGED <<currentUserSubject, route, loggedOut, notAuthVars>>

\* the refresh request answers not ok, or without an access token
RefreshNotOk ==
    /\ refreshRequests > 0
    /\ refreshRequests' = refreshRequests - 1
    /\ ret' = [op |-> "AuthService.refreshToken", val |-> FALSE]
    /\ UNCHANGED <<localStorage, currentUserSubject, route, loggedOut, notAuthVars>>

\* the refresh request fails: catchError logs out
RefreshFailed ==
    /\ refreshRequests > 0
    /\ refreshRequests' = refreshRequests - 1
    /\ Logout
    /\ ret' = [op |-> "AuthService.refreshToken", val |-> FALSE]
    /\ UNCHANGED notAuthVars

NextAuth ==
    \/ \E accessToken \in TokenSamples, user \in UserSamples,
          refresh \in {Null, "refresh2"} :
           login(accessToken, user, refresh)
    \/ logout
    \/ refreshToken
    \/ \E accessToken \in {"token2"} : RefreshOk(accessToken)
    \/ RefreshNotOk
    \/ RefreshFailed

SpecAuth == InitAuth /\ [][NextAuth]_vars

\* C24: from logout() until the next login(), isLoggedIn() is false, also
\* when a refresh request sent before the logout is answered ok afterwards.
C24_LoggedOutStaysLoggedOut == loggedOut => ~isLoggedIn

----------------------------------------------------------------------------
(* AdminDashboard: the loading flag and the best department *)

\* C25: whenever loading is false after a load or refresh that ended without
\* error, the best department has been computed from the ranked employees
\* of that load: no ranked-employees request is still awaited, and
\* bestDepartment and bestDepartmentPoints are what calculateBestDepartment
\* gives for them.
C25_BestDepartmentBeforeLoadingCleared ==
    (dashOp # "constructed" /\ ~loading /\ dashError = Null) =>
        /\ rankPending = 0
        /\ bestDepartment =
             calculateBestDepartment(srvRanked, departments).bestDepartment
        /\ bestDepartmentPoints =
             calculateBestDepartment(srvRanked, departments).bestDepartmentPoints

\* C27: after calculateBestDepartment, bestDepartment is 'N/A' or the name
\* of a department in the loaded department list.
C27_BestDepartmentIsListed ==
    BestDepartmentComputed =>
        \/ bestDepartment = NotApplicable.bestDepartment
        \/ bestDepartment \in ListedNames

----------------------------------------------------------------------------
(* Staffprofile.processAttendanceData.  Times are minutes of the day, so a  *)
(* number of hours is a number of minutes over 60; a record carries the     *)
(* day of the week of its date, its checkIn and checkOut (each may be       *)
(* absent) and its breaks.  The clockIn and clockOut texts of a row are     *)
(* left out.                                                                *)

MaxWeekRecords == 2    \* records per response

\* no break, a break of one hour, a break of ten hours
BreakSamples == {<<>>, <<[start |-> 720, end |-> 780]>>,
                 <<[start |-> 600, end |-> 1200]>>}

\* a Sunday or a Monday; checkIn at 09:00 or absent; checkOut at 08:00, at
\* 18:00 or absent
WeekRecords ==
    [dayOfWeek : {0, 1}, checkIn : {NoNumber, Some(540)},
     checkOut : {NoNumber, Some(480), Some(1080)}, breaks : BreakSamples]

\* the minutes of the breaks of a record that have a start and an end
RECURSIVE BreakMinutes(_)
BreakMinutes(breaks) ==
    IF breaks = <<>> THEN 0
    ELSE (Head(breaks).end - Head(breaks).start) + BreakMinutes(Tail(breaks))

\* hoursNum of a record, in minutes
WorkedMinutes(record) ==
    IF record.checkIn.def /\ record.checkOut.def
    THEN (record.checkOut.v - record.checkIn.v) - BreakMinutes(record.breaks)
    ELSE 0

\* Staffprofile.formatHours for mins / 60 hours: Math.floor of the hours and
\* of the remaining minutes
formatHours(mins) == FormatHM(mins \div 60, "h", mins % 60, "m")

\* the percentage of a day's row
DayPercentage(mins) ==
    LET percentage == IF mins >= 8 * 60 THEN 100 ELSE MathRound(mins * 100, 8 * 60)
    IN  IF percentage < 100 THEN percentage ELSE 100

DayStatus(mins) ==
    IF mins >= 8 * 60 THEN "success" ELSE IF mins >= 6 * 60 THEN "warning" ELSE "danger"

\* the map step: the row shown for a record
AttendanceRow(record) ==
    [day |-> record.dayOfWeek,
     hours |-> formatHours(WorkedMinutes(record)),
     percentage |-> DayPercentage(WorkedMinutes(record)),
     status |-> DayStatus(WorkedMinutes(record))]

\* the filter step: Monday to Friday
WeekdaysOnly(records) ==
    SelectSeq(records, LAMBDA r : r.dayOfWeek >= 1 /\ r.dayOfWeek <= 5)

RECURSIVE TotalMinutes(_)
TotalMinutes(records) ==
    IF records = <<>> THEN 0
    ELSE WorkedMinutes(Head(records)) + TotalMinutes(Tail(records))

\* the three fields processAttendanceData assigns
processAttendanceData(records) ==
    LET shown == WeekdaysOnly(records)
        totalMins == TotalMinutes(shown)
        weekly == MathRound(totalMins * 100, 40 * 60)
    IN  [attendance |-> [i \in 1..Len(shown) |-> AttendanceRow(shown[i])],
         totalWeeklyHours |-> formatHours(totalMins),
         weeklyPercentage |-> IF weekly < 100 THEN weekly ELSE 100]

InitProfile ==
    /\ weekRecords \in SeqsUpTo(WeekRecords, MaxWeekRecords)
    /\ HoursIdle
    /\ EarlierConstructed
    /\ response = NoResponse
    /\ srvTasks = <<>>
    /\ TasksConstructed
    /\ srvByPeriod = [p \in Periods |-> NullPagination]
    /\ attInFlight = <<>>
    /\ AuthConstructed
    /\ InnovationConstructed

CallProcessAttendanceData ==
    /\ ret' = [op |-> "Staffprofile.processAttendanceData",
               val |-> processAttendanceData(weekRecords)]
    /\ UNCHANGED <<checkIn, checkOut, earlierVars, svcVars>>

NextProfile == CallProcessAttendanceData

SpecProfile == InitProfile /\ [][NextProfile]_vars

\* C26: after processAttendanceData every row's worked hours and percentage,
\* the weekly total and weeklyPercentage are not negative, and the
\* percentages are at most 100.
C26_NothingNegative ==
    ret.op = "Staffprofile.processAttendanceData" =>
        /\ \A i \in 1..Len(ret.val.attendance) :
               /\ ret.val.attendance[i].hours.hours >= 0
               /\ ret.val.attendance[i].percentage \in 0..100
        /\ ret.val.totalWeeklyHours.hours >= 0
        /\ ret.val.weeklyPercentage \in 0..100

----------------------------------------------------------------------------
(* InnovationComponent.  An idea carries its id and whether it is the       *)
(* user's own; one page holds all ideas and the project filter is 'all'.    *)
(* A request that succeeds runs next and then complete; one that fails      *)
(* runs error alone.  The projects request, which writes no flag, and what  *)
(* a submitted idea changes on the server are not followed.                 *)

MaxInnoRequests == 2    \* requests of the component in flight

IdeaPool == {[id |-> "i1", isMine |-> TRUE], [id |-> "i2", isMine |-> FALSE]}

InitInnovation ==
    /\ srvInnovations \in {l \in SeqsUpTo(IdeaPool, 2) :
                              \A i, j \in 1..Len(l) : i # j => l[i] # l[j]}
    /\ innovations = <<>>
    /\ filteredInnovations = <<>>
    /\ inIsLoading = FALSE
    /\ isSubmitting = FALSE
    /\ isDeleting = FALSE
    /\ ideaToDelete = Null
    /\ innoRequests = [k \in InnoKinds |-> 0]
    /\ HoursIdle
    /\ EarlierConstructed
    /\ response = NoResponse
    /\ srvTasks = <<>>
    /\ TasksConstructed
    /\ srvByPeriod = [p \in Periods |-> NullPagination]
    /\ attInFlight = <<>>
    /\ AuthConstructed
    /\ weekRecords = <<>>

notInnoVars == <<hoursVars, earlierVars, envVars, taskVars, raceVars, authVars,
                 profVars>>

InnoInFlight ==
    innoRequests["load"] + innoRequests["submit"] + innoRequests["delete"]

\* innoRequests with n more (or fewer) requests of a kind
Requests(reqs, kind, n) == [reqs EXCEPT ![kind] = @ + n]

\* ngOnInit, and later onFilterChange: loadInnovations(1) sends its request
loadInnovations ==
    /\ InnoInFlight < MaxInnoRequests
    /\ inIsLoading' = TRUE
    /\ innoRequests' = Requests(innoRequests, "load", 1)
    /\ UNCHANGED <<srvInnovations, innovations, filteredInnovations, isSubmitting,
                   isDeleting, ideaToDelete, notInnoVars>>

\* a load request succeeds: next takes the page if the response is ok, then
\* complete clears the flag
InnovationsLoaded(ok) ==
    /\ innoRequests["load"] > 0
    /\ innoRequests' = Requests(innoRequests, "load", -1)
    /\ innovations' = IF ok THEN srvInnovations ELSE innovations
    /\ filteredInnovations' = IF ok THEN srvInnovations ELSE filteredInnovations
    /\ inIsLoading' = FALSE
    /\ UNCHANGED <<srvInnovations, isSubmitting, isDeleting, ideaToDelete,
                   notInnoVars>>

\* a request of a kind fails: the error handler alerts, and complete does
\* not run
InnovationRequestFailed(kind) ==
    /\ innoRequests[kind] > 0
    /\ innoRequests' = Requests(innoRequests, kind, -1)
    /\ UNCHANGED <<srvInnovations, innovations, filteredInnovations, inIsLoading,
                   isSubmitting, isDeleting, ideaToDelete, notInnoVars>>

\* submitIdea with the form filled in or not
submitIdea(filled) ==
    /\ InnoInFlight < MaxInnoRequests
    /\ IF filled
       THEN /\ isSubmitting' = TRUE
            /\ innoRequests' = Requests(innoRequests, "submit", 1)
       ELSE UNCHANGED <<isSubmitting, innoRequests>>
    /\ UNCHANGED <<srvInnovations, innovations, filteredInnovations, inIsLoading,
                   isDeleting, ideaToDelete, notInnoVars>>

\* the submit request succeeds: for an ok response next calls
\* loadInnovations(currentPage); then complete clears the flag
IdeaSubmitted(ok) ==
    /\ innoRequests["submit"] > 0
    /\ innoRequests' =
           IF ok THEN Requests(Requests(innoRequests, "submit", -1), "load", 1)
           ELSE Requests(innoRequests, "submit", -1)
    /\ inIsLoading' = IF ok THEN TRUE ELSE inIsLoading
    /\ isSubmitting' = FALSE
    /\ UNCHANGED <<srvInnovations, innovations, filteredInnovations, isDeleting,
                   ideaToDelete, notInnoVars>>

\* openDeleteModal(idea) for a listed idea
openDeleteModal(idea) ==
    /\ \E i \in 1..Len(filteredInnovations) : filteredInnovations[i] = idea
    /\ ideaToDelete' = IF idea.isMine THEN idea.id ELSE ideaToDelete
    /\ UNCHANGED <<srvInnovations, innovations, filteredInnovations, inIsLoading,
                   isSubmitting, isDeleting, innoRequests, notInnoVars>>

cancelDelete ==
    /\ ideaToDelete' = Null
    /\ UNCHANGED <<srvInnovations, innovations, filteredInnovations, inIsLoading,
                   isSubmitting, isDeleting, innoRequests, notInnoVars>>

confirmDelete ==
    /\ ideaToDelete # Null
    /\ InnoInFlight < MaxInnoRequests
    /\ isDeleting' = TRUE
    /\ innoRequests' = Requests(innoRequests, "delete", 1)
    /\ UNCHANGED <<srvInnovations, innovations, filteredInnovations, inIsLoading,
                   isSubmitting, ideaToDelete, notInnoVars>>

\* ids a delete request can name: openDeleteModal takes own ideas only
OwnIds == {x.id : x \in {y \in IdeaPool : y.isMine}}

\* the delete request for an idea succeeds: the server has dropped the idea
\* if it answers ok; next then reloads and forgets the idea, and complete
\* clears the flag
IdeaDeleted(id, ok) ==
    /\ innoRequests["delete"] > 0
    /\ innoRequests' =
           IF ok THEN Requests(Requests(innoRequests, "delete", -1), "load", 1)
           ELSE Requests(innoRequests, "delete", -1)
    /\ srvInnovations' =
           IF ok
           THEN SelectSeq(srvInnovations, LAMBDA x : x.id # id)
           ELSE srvInnovations
    /\ inIsLoading' = IF ok THEN TRUE ELSE inIsLoading
    /\ ideaToDelete' = IF ok THEN Null ELSE ideaToDelete
    /\ isDeleting' = FALSE
    /\ UNCHANGED <<innovations, filteredInnovations, isSubmitting, notInnoVars>>

NextInnovation ==
    \/ loadInnovations
    \/ \E ok \in BOOLEAN : InnovationsLoaded(ok)
    \/ \E kind \in InnoKinds : InnovationRequestFailed(kind)
    \/ \E filled \in BOOLEAN : submitIdea(filled)
    \/ \E ok \in BOOLEAN : IdeaSubmitted(ok)
    \/ \E idea \in IdeaPool : openDeleteModal(idea)
    \/ cancelDelete
    \/ confirmDelete
    \/ \E id \in OwnIds, ok \in BOOLEAN : IdeaDeleted(id, ok)

SpecInnovation == InitInnovation /\ [][NextInnovation]_vars

\* C28: whenever no request of the component is in flight, isLoading,
\* isSubmitting and isDeleting are all false.
C28_FlagsClearWhenIdle ==
    InnoInFlight = 0 => ~inIsLoading /\ ~isSubmitting /\ ~isDeleting

----------------------------------------------------------------------------
(* The two percentage functions side by side *)

\* C30: for every pair of valid timestamps, the service's
\* calculateAttendancePercentage and the Attendance component's
\* getAttendancePercentage return the same percentage.
C30_PercentagesAgree ==
    (PercentageCalled /\ BothWellFormed)
    => calculateAttendancePercentage(checkIn, checkOut)
         = getAttendancePercentage(checkIn, checkOut)

====
